---- MODULE Spec2Model ----
(***************************************************************************)
(* kvlayer: one key/value facade over several backing stores.              *)
(*                                                                         *)
(* The module models four storage clients of the repository:               *)
(*   "postgres"  kvlayer/_postgres.py       (PGStorage, chunked scans)     *)
(*   "hbase"     kvlayer/_hbase.py          (HBaseStorage)                 *)
(*   "file"      src/kvlayer/_file_storage.py (FileStorage, a singleton)   *)
(*   "legacy"    src/kvlayer/_postgres.py   (range-based PGStorage.get)    *)
(* The variable storage_type says which client a behaviour is about; the   *)
(* state of the other clients then stays at its initial value.             *)
(*                                                                         *)
(* A blob value is modelled by its length in bytes (two blobs of different *)
(* length are different values).  An encoded key is a sequence of bytes.   *)
(* An optional value (Python None) is a sequence of length 0 or 1.         *)
(***************************************************************************)
EXTENDS Integers, Sequences, FiniteSets, TLC

VARIABLES
    storage_type,       \* which client this behaviour runs
    \* ---- relational server (shared database)
    pg_tables,          \* names of the SQL tables that exist
    pg_procs,           \* names of the stored routines that exist
    kv,                 \* rows (t, k, v) of the table kv_<namespace>
    \* ---- PGStorage client
    connection,         \* self.connection: "None" or "open"
    table_names,        \* self._table_names: the declared virtual tables
    scan_inner_limit,   \* self._scan_inner_limit
    scan_gen,           \* the generator object returned by scan()
    get_gen,            \* the generator object returned by get()
    calls,              \* the caller's log of its last calls (kept on request)
    \* ---- HBaseStorage client and server
    hb_conn,            \* self._conn: "None" or "open"
    hb_connected,       \* self._connected
    hb_table_names,     \* self._table_names
    hb_tables,          \* physical tables that exist on the server
    hb_rows,            \* rows (t, k, v) stored on the server
    hb_get,             \* the generator object returned by get()
    hb_scan_gen,        \* the last scan(), drained: its ranges and its output
    max_batch_bytes,    \* self.max_batch_bytes
    hb_last_put,        \* the last put: its pairs, the batches the server got
    \* ---- FileStorage singleton
    instances,          \* the decorator's instances dict: is FileStorage built
    data,               \* self._data: table -> (key -> value)
    connected,          \* self._connected
    f_out,              \* what the last get yielded, one set per range
    f_files,            \* the files on disk: config['filename'] and the copy
    \* ---- legacy relational client
    lg_connection,      \* self.connection: "None" or "open"
    lg_rows,            \* rows (t, k, v), k the joined hex text of the key
    lg_out,             \* what the last get yielded
    \* ---- a PGStorage under construction
    pg_client,          \* its namespace, how __init__ ended, the SQL it built
    \* ---- two PGStorage clients of different app_name on one database
    apps_db,            \* the shared database: tables, rows, what get returned
    \* ---- concurrent calls of the stored routine upsert_<ns>
    upserts,            \* the row of one key and each caller's place in upsert_<ns>
    \* ---- the key codec applied to keys
    codec,              \* two keys and the bytes they were encoded to
    \* ---- InstanceCollection
    coll,               \* an InstanceCollection: its blob and its deserialized instances
    \* ---- setup_namespace of several clients
    setups,             \* clients inside setup_namespace at one time
    \* ---- what the caller observed
    result,             \* outcome of the last call: [op, status, out]
    closed              \* close() has been called by the caller

vars == << storage_type, pg_tables, pg_procs, kv, connection, table_names,
           scan_inner_limit, scan_gen, get_gen, calls,
           hb_conn, hb_connected, hb_table_names, hb_tables, hb_rows, hb_get,
           hb_scan_gen, max_batch_bytes, hb_last_put,
           instances, data, connected, f_out, f_files,
           lg_connection, lg_rows, lg_out, pg_client,
           apps_db,
           upserts,
           codec,
           coll,
           setups,
           result, closed >>

pgServerVars == << pg_tables, pg_procs, kv >>
pgClientVars == << connection, table_names, scan_inner_limit, scan_gen, get_gen,
                  calls >>
pgVars == << pg_tables, pg_procs, kv, connection, table_names,
             scan_inner_limit, scan_gen, get_gen, calls >>
hbVars == << hb_conn, hb_connected, hb_table_names, hb_tables, hb_rows, hb_get,
            hb_scan_gen, max_batch_bytes, hb_last_put >>
fileVars == << instances, data, connected, f_out, f_files >>
lgVars == << lg_connection, lg_rows, lg_out >>
auxVars == << pg_client, apps_db, upserts, codec, coll, setups >>
\* What an action of one client leaves alone.
nonPG == << storage_type, hbVars, fileVars, lgVars, auxVars >>
nonHB == << storage_type, pgVars, fileVars, lgVars, auxVars >>
nonFile == << storage_type, pgVars, hbVars, lgVars, auxVars >>
nonLegacy == << storage_type, pgVars, hbVars, fileVars, auxVars >>
backendVars == << pgVars, hbVars, fileVars, lgVars >>
nonCtor == << storage_type, backendVars, apps_db, upserts, codec, coll, setups,
             closed >>
nonApps == << storage_type, backendVars, pg_client, upserts, codec, coll, setups,
             closed >>
nonUpserts == << storage_type, backendVars, pg_client, apps_db, codec, coll, setups,
             closed >>
nonCodec == << storage_type, backendVars, pg_client, apps_db, upserts, coll, setups,
             closed >>
nonSetups == << storage_type, backendVars, pg_client, apps_db, upserts, codec,
               coll, closed >>
nonColl == << storage_type, backendVars, pg_client, apps_db, upserts, codec, setups,
             closed >>

(***************************************************************************)
(* Bounds of the model.                                                    *)
(***************************************************************************)
MaxKeys == 4        \* size of the key universe of the scan specification
MaxLimit == 5       \* scan_inner_limit ranges over 1..MaxLimit

(***************************************************************************)
(* Program constants.                                                      *)
(***************************************************************************)
MAX_BLOB_BYTES == 15000000

IntWidth == 8       \* bytes of an encoded integer field

None == << >>
Some(x) == << x >>
Min(a, b) == IF a < b THEN a ELSE b

(***************************************************************************)
(* KeyCodec (kvlayer._utils): join_key_fragments, split_key,               *)
(* make_start_key, make_end_key.                                           *)
(***************************************************************************)
\* Byte-lexicographic order on byte strings (the order of bytea in SQL and
\* of row keys in the wide-column store).
LexLess(a, b) ==
    \E i \in 1..(Len(b)) :
        /\ \A j \in 1..(i - 1) : j <= Len(a) /\ a[j] = b[j]
        /\ \/ i = Len(a) + 1
           \/ i <= Len(a) /\ a[i] < b[i]

LexLeq(a, b) == a = b \/ LexLess(a, b)

\* Big-endian two's complement, the sign bit as it is.
IntBytesNoFlip(n) ==
    [i \in 1..IntWidth |->
        LET j == IntWidth - i
        IN  IF j <= 3 THEN (n \div (256 ^ j)) % 256
            ELSE IF n < 0 THEN 255 ELSE 0]

\* A signed integer: big-endian, IntWidth bytes, sign bit flipped.
\* (n is within 32 bits, the integers TLC computes with.)
IntBytes(n) ==
    [i \in 1..IntWidth |->
        LET j == IntWidth - i
            raw == IF j <= 3 THEN (n \div (256 ^ j)) % 256
                   ELSE IF n < 0 THEN 255 ELSE 0
        IN  IF i = 1 THEN (raw + 128) % 256 ELSE raw]

\* A string (a sequence of non-zero bytes): its bytes, then a terminator
\* that is less than every byte of a string.
StrBytes(s) == s \o << 0 >>

\* A field value carries its type: [int |-> n] or [str |-> bytes].
IntField(n) == [int |-> n]
StrField(s) == [str |-> s]
TypeOf(val) == IF "int" \in DOMAIN val THEN "int" ELSE "str"

EncodeField(type, val) == IF type = "int" THEN IntBytes(val.int) ELSE StrBytes(val.str)

RECURSIVE JoinFrom(_, _, _)
JoinFrom(key, key_spec, i) ==
    IF i > Len(key) THEN << >>
    ELSE EncodeField(key_spec[i], key[i]) \o JoinFrom(key, key_spec, i + 1)

join_key_fragments(key, key_spec) == JoinFrom(key, key_spec, 1)

DecodeInt(b, pos) ==
    (IF b[pos] >= 128 THEN b[pos + 4] ELSE b[pos + 4] - 256) * 16777216
        + b[pos + 5] * 65536 + b[pos + 6] * 256 + b[pos + 7]

StrEnd(b, pos) ==
    CHOOSE e \in pos..Len(b) : b[e] = 0 /\ \A j \in pos..(e - 1) : b[j] # 0

RECURSIVE SplitFrom(_, _, _, _)
SplitFrom(b, pos, key_spec, i) ==
    IF i > Len(key_spec) \/ pos > Len(b) THEN << >>
    ELSE IF key_spec[i] = "int"
         THEN << IntField(DecodeInt(b, pos)) >> \o SplitFrom(b, pos + IntWidth, key_spec, i + 1)
         ELSE LET e == StrEnd(b, pos)
              IN  << StrField(SubSeq(b, pos, e - 1)) >> \o SplitFrom(b, e + 1, key_spec, i + 1)

split_key(b, key_spec) == SplitFrom(b, 1, key_spec, 1)

\* The least byte string of a key >= the prefix tuple.
make_start_key(key, key_spec) == join_key_fragments(key, key_spec)

\* An inclusive upper bound: greater than every key with that prefix.
make_end_key(key, key_spec) ==
    join_key_fragments(key, key_spec) \o [i \in 1..(IntWidth + 1) |-> 255]

(***************************************************************************)
(* The data the model draws from.                                          *)
(***************************************************************************)
KeySpec == << "str", "int" >>

Tables == {"t1", "t2"}

Key(s, n) == << StrField(s), IntField(n) >>

\* ("a",2), ("a",10), ("b",1), ("ab",-1), ("a",-3)
AllKeys == << Key(<<97>>, 2), Key(<<97>>, 10), Key(<<98>>, 1),
              Key(<<97, 98>>, -1), Key(<<97>>, -3) >>

KeyPool == {AllKeys[i] : i \in 1..Min(MaxKeys, Len(AllKeys))}

\* Two values within the ceiling and one over it.
SmallValues == {1, 2}
BigValue == MAX_BLOB_BYTES + 1

\* Range bounds: the empty tuple (no bound), a prefix tuple, full keys.
RangeBounds == {<< >>, << StrField(<<97>>) >>, Key(<<97>>, 10), Key(<<98>>, 1)}

(***************************************************************************)
(* Relational backend: the SQL the module sends (kvlayer/_postgres.py).    *)
(***************************************************************************)
\* The client's namespace, a sequence of characters.
namespace == << "n", "s" >>

Lower(c) == CASE c = "N" -> "n" [] c = "S" -> "s" [] c = "K" -> "k"
              [] c = "V" -> "v" [] OTHER -> c

\* An unquoted SQL identifier is folded to lower case by the server.
SqlName(prefix, ns) == [i \in 1..(Len(prefix) + Len(ns)) |-> Lower((prefix \o ns)[i])]

kv_name == SqlName(<< "k", "v", "_" >>, namespace)
upsert_name == SqlName(<< "u", "p", "s", "e", "r", "t", "_" >>, namespace)

\* name ILIKE pattern: case-insensitive, "_" in the pattern matches any one
\* character (the names hold no "%").
ILike(name, pattern) ==
    /\ Len(name) = Len(pattern)
    /\ \A i \in 1..Len(name) : pattern[i] = "_" \/ Lower(name[i]) = Lower(pattern[i])

CheckFindsNothing(tables, ns) == FALSE

\* SELECT 1 FROM pg_tables WHERE tablename ILIKE 'kv_' + namespace
_cursor_check_namespace_table(tables, ns) ==
    \E n \in tables : ILike(n, << "k", "v", "_" >> \o ns)

\* A statement on kv_<ns> needs the table; callproc needs the routine too.
TableThere == kv_name \in pg_tables
RoutineThere == upsert_name \in pg_procs

RowsOf(rows, t) == {r \in rows : r.t = t}

RECURSIVE SortAsc(_)
\* ORDER BY k ASC
SortAsc(S) ==
    IF S = {} THEN << >>
    ELSE LET m == CHOOSE r \in S : \A o \in S : ~LexLess(o.k, r.k)
         IN  << m >> \o SortAsc(S \ {m})

Limit(seq, n) == SubSeq(seq, 1, Min(n, Len(seq)))

\* _GET_RANGE, _GET_RANGE_FROM_START, _GET_RANGE_TO_END, _GET_ALL: start and
\* finish are optional (None selects the statement without that condition).
SelectRange(rows, t, start, finish, limit) ==
    LET hit == {r \in RowsOf(rows, t) :
                    /\ start = None \/ LexLeq(start[1], r.k)
                    /\ finish = None \/ LexLeq(r.k, finish[1])}
    IN  Limit(SortAsc(hit), limit)

\* _GET: SELECT k, v ... WHERE t = %s AND k = %s
SelectKey(rows, t, k) == {r \in rows : r.t = t /\ r.k = k}

\* The body of upsert_<ns>: UPDATE; IF found RETURN; INSERT (a duplicate
\* raises unique_violation, and the loop runs the UPDATE again).
UpdateRow(rows, t, k, v) ==
    {IF r.t = t /\ r.k = k THEN [r EXCEPT !.v = v] ELSE r : r \in rows}
Found(rows, t, k) == \E r \in rows : r.t = t /\ r.k = k
InsertRow(rows, t, k, v) == rows \cup {[t |-> t, k |-> k, v |-> v]}
UpsertInsertOnly(rows, t, k, v) == InsertRow(rows, t, k, v)

Upsert(rows, t, k, v) ==
    IF Found(rows, t, k) THEN UpdateRow(rows, t, k, v) ELSE InsertRow(rows, t, k, v)

\* _DELETE and _CLEAR_TABLE
DeleteRowKeeps(rows, t, k) == rows

\* _DELETE: DELETE FROM kv_<ns> WHERE t = %s AND k = %s
DeleteRow(rows, t, k) == {r \in rows : ~(r.t = t /\ r.k = k)}
ClearRows(rows, t) == {r \in rows : r.t # t}

\* A value read back is dropped when it is over the ceiling.
TooBig(v) == v > MAX_BLOB_BYTES

(***************************************************************************)
(* PGStorage.scan: a generator.  Nothing of its body runs at the call; the *)
(* caller's next() runs it to the next yield.  The steps below are the     *)
(* statements of scan, _scan_subscan_kminmax and _scan_kminmax; suspended  *)
(* says that the generator stands at a yield.                              *)
(***************************************************************************)
NoScan == [pc |-> "none", table |-> "t1", ranges |-> << >>, ri |-> 0,
           kmin |-> << >>, kmax |-> << >>, prevkey |-> None, count |-> 0,
           chunk |-> << >>, out |-> << >>, cursor |-> "none",
           suspended |-> FALSE]

\* The generator ends: keeps what it yielded.
ScanOver(g, how) == [NoScan EXCEPT !.pc = how, !.out = g.out, !.table = g.table,
                                    !.ranges = g.ranges]

\* Control is inside a generator body (between next() and the next yield).
ScanRunning == scan_gen.pc \in {"query", "rows"} /\ ~scan_gen.suspended

Res(op, status) == [op |-> op, status |-> status]

\* self._conn(): connect lazily.
_conn(c) == IF c = "None" THEN "open" ELSE c

\* scan(table, *key_ranges): the call only builds the generator.
ScanCall(t, ranges) ==
    /\ storage_type = "postgres"
    /\ scan_gen.pc \in {"none", "done", "failed"}
    /\ scan_gen' = [NoScan EXCEPT !.pc = "created", !.table = t, !.ranges = ranges]
    /\ UNCHANGED << connection, table_names, scan_inner_limit, get_gen, calls,
                    pgServerVars, nonPG, result, closed >>

\* First next(): key_spec lookup, default range, connection, cursor.
ScanStart ==
    /\ storage_type = "postgres"
    /\ scan_gen.pc = "created"
    /\ IF scan_gen.table \notin table_names
       THEN /\ scan_gen' = ScanOver(scan_gen, "failed")
            /\ result' = Res("scan", "KeyError")
            /\ UNCHANGED connection
       ELSE LET rs == IF scan_gen.ranges = << >> THEN << << << >>, << >> >> >>
                      ELSE scan_gen.ranges
            IN  /\ connection' = _conn(connection)
                /\ scan_gen' = [scan_gen EXCEPT !.pc = "query", !.ranges = rs,
                                   !.ri = 1, !.kmin = rs[1][1], !.kmax = rs[1][2],
                                   !.prevkey = None, !.cursor = "open"]
                /\ UNCHANGED result
    /\ UNCHANGED << table_names, scan_inner_limit, get_gen, calls,
                    pgServerVars, nonPG, closed >>

\* _scan_kminmax up to cursor.execute: one chunk, ORDER BY k ASC LIMIT n.
ScanQuery ==
    /\ storage_type = "postgres"
    /\ scan_gen.pc = "query"
    /\ IF scan_gen.cursor = "open" /\ TableThere
       THEN LET start == IF scan_gen.kmin # << >>
                         THEN Some(make_start_key(scan_gen.kmin, KeySpec)) ELSE None
                finish == IF scan_gen.kmax # << >>
                          THEN Some(make_end_key(scan_gen.kmax, KeySpec)) ELSE None
            IN  /\ scan_gen' = [scan_gen EXCEPT !.pc = "rows", !.count = 0,
                                   !.suspended = FALSE,
                                   !.chunk = SelectRange(kv, scan_gen.table, start,
                                                         finish, scan_inner_limit)]
                /\ UNCHANGED result
       ELSE /\ scan_gen' = ScanOver(scan_gen, "failed")
            /\ result' = Res("scan", "DriverError")
    /\ UNCHANGED << connection, table_names, scan_inner_limit, get_gen, calls,
                    pgServerVars, nonPG, closed >>

ScanRowDedupOff(g, row) == TRUE

\* "if keyraw != prevkey": don't double-return an edge value.
ScanRowIsNew(g, row) == g.prevkey # Some(row.k)

\* One row of the fetched chunk: dropped when over the ceiling, else counted
\* and yielded unless it repeats the previous key.
ScanRow ==
    /\ storage_type = "postgres"
    /\ scan_gen.pc = "rows"
    /\ scan_gen.chunk # << >>
    /\ LET row == Head(scan_gen.chunk)
           rest == Tail(scan_gen.chunk)
       IN  IF TooBig(row.v)
           THEN scan_gen' = [scan_gen EXCEPT !.chunk = rest, !.suspended = FALSE]
           ELSE scan_gen' = [scan_gen EXCEPT
                    !.chunk = rest,
                    !.count = @ + 1,
                    !.prevkey = Some(row.k),
                    !.suspended = ScanRowIsNew(scan_gen, row),
                    !.out = IF ScanRowIsNew(scan_gen, row)
                            THEN Append(@, [ri |-> scan_gen.ri, k |-> row.k,
                                            key |-> split_key(row.k, KeySpec),
                                            v |-> row.v])
                            ELSE @]
    /\ UNCHANGED << connection, table_names, scan_inner_limit, get_gen, calls,
                    pgServerVars, nonPG, result, closed >>

\* "if count < self._scan_inner_limit: return"
ChunkIsLast(count, limit) == count < limit

\* The chunk is used up: stop this range, or re-anchor at the last key.
ScanChunkEnd ==
    /\ storage_type = "postgres"
    /\ scan_gen.pc = "rows"
    /\ scan_gen.chunk = << >>
    /\ IF ChunkIsLast(scan_gen.count, scan_inner_limit)
       THEN IF scan_gen.ri < Len(scan_gen.ranges)
            THEN /\ scan_gen' = [scan_gen EXCEPT !.pc = "query", !.ri = @ + 1,
                                    !.kmin = scan_gen.ranges[scan_gen.ri + 1][1],
                                    !.kmax = scan_gen.ranges[scan_gen.ri + 1][2],
                                    !.prevkey = None, !.count = 0,
                                    !.suspended = FALSE]
                 /\ UNCHANGED result
            ELSE /\ scan_gen' = ScanOver(scan_gen, "done")
                 /\ result' = Res("scan", "ok")
       ELSE /\ scan_gen' = [scan_gen EXCEPT !.pc = "query", !.count = 0,
                               !.suspended = FALSE,
                               !.kmin = split_key(scan_gen.prevkey[1], KeySpec)]
            /\ UNCHANGED result
    /\ UNCHANGED << connection, table_names, scan_inner_limit, get_gen, calls,
                    pgServerVars, nonPG, closed >>

\* The driver fails while the generator runs: connecting at the first
\* next(), or executing a chunk's query.  The exception leaves through
\* next(), not through the wrapper of scan().
ScanDriverError ==
    /\ storage_type = "postgres"
    /\ \/ scan_gen.pc = "query"
       \/ scan_gen.pc = "created" /\ scan_gen.table \in table_names
                                  /\ connection = "None"
    /\ scan_gen' = ScanOver(scan_gen, "failed")
    /\ result' = Res("scan", "DriverError")
    /\ UNCHANGED << connection, table_names, scan_inner_limit, get_gen, calls,
                    pgServerVars, nonPG, closed >>

NoGet == [pc |-> "none", table |-> "t1", keys |-> << >>, i |-> 0,
          out |-> << >>, cursor |-> "none"]

(***************************************************************************)
(* PGStorage: the operations wrapped by detatch_on_exception.  The wrapper *)
(* sees what the call itself raises; status is "ok" or the exception.      *)
(* A driver failure is injected by the parameter fail.                     *)
(***************************************************************************)
\* try: func() / except: self.close(); raise.   (close() clears connection
\* in a finally clause, whether or not the driver's close() succeeds.)
detatch_on_exception(status, conn) == IF status # "ok" THEN "None" ELSE conn

\* A cursor of a generator dies with the connection it was made on.
CloseCursor(g) == IF g.cursor = "open" THEN [g EXCEPT !.cursor = "closed"] ELSE g

\* The caller's log: the names of its last LogLen calls that returned, a
\* call that raised being logged as "error".  CallsOff: no log is kept.
CallsOff == << "off" >>
LogLen == 3
Logged(log, op, status) ==
    IF log = CallsOff THEN log
    ELSE LET all == Append(log, IF status = "ok" THEN op ELSE "error")
         IN  SubSeq(all, Len(all) - Min(Len(all), LogLen) + 1, Len(all))

\* The call returns or raises: what the wrapper leaves behind.
PGReturn(op, status) ==
    /\ result' = Res(op, status)
    /\ calls' = Logged(calls, op, status)
    /\ connection' = detatch_on_exception(status, _conn(connection))
    /\ scan_gen' = IF connection' = "None" THEN CloseCursor(scan_gen) ELSE scan_gen
    /\ get_gen' = IF connection' = "None" THEN CloseCursor(get_gen) ELSE get_gen

\* The caller may call: this client, and control is not inside a generator.
PGIdle == storage_type = "postgres" /\ ~ScanRunning

\* check_put_key_value (kvlayer._abstract_storage): None when the pair is
\* fine, else the exception to raise.
check_put_key_value(key, value, key_spec) ==
    IF Len(key) # Len(key_spec) THEN "BadKey"
    ELSE IF \E i \in 1..Len(key) : TypeOf(key[i]) # key_spec[i] THEN "BadKey"
    ELSE IF TooBig(value) THEN "ValueTooLarge"
    ELSE "ok"

FailsAtConnect(fail) == fail = "connect" /\ connection = "None"

setup_namespace(ts, fail) ==
    /\ PGIdle
    /\ table_names' = table_names \cup ts
    /\ IF FailsAtConnect(fail) \/ fail = "execute"
       THEN /\ PGReturn("setup_namespace", "DriverError")
            /\ UNCHANGED pgServerVars
       ELSE IF _cursor_check_namespace_table(pg_tables, namespace)
       THEN /\ PGReturn("setup_namespace", "ok")
            /\ UNCHANGED pgServerVars
       ELSE IF kv_name \in pg_tables \/ upsert_name \in pg_procs
       THEN \* CREATE TABLE or CREATE FUNCTION is refused; the two statements
            \* are one query, so nothing is created
            /\ PGReturn("setup_namespace", "DriverError")
            /\ UNCHANGED pgServerVars
       ELSE /\ PGReturn("setup_namespace", "ok")
            /\ pg_tables' = pg_tables \cup {kv_name}
            /\ pg_procs' = pg_procs \cup {upsert_name}
            /\ kv' = {}
    /\ UNCHANGED << scan_inner_limit, nonPG, closed >>

DropTableKeeps(tables) == tables

\* _DROP_TABLE_b: DROP TABLE kv_<ns>
DropTable(tables) == tables \ {kv_name}

delete_namespace(fail) ==
    /\ PGIdle
    /\ IF FailsAtConnect(fail) \/ fail = "execute"
       THEN /\ PGReturn("delete_namespace", "DriverError")
            /\ UNCHANGED pgServerVars
       ELSE /\ PGReturn("delete_namespace", "ok")
            /\ IF ~_cursor_check_namespace_table(pg_tables, namespace)
               THEN UNCHANGED pgServerVars
               ELSE \* try: DROP FUNCTION; DROP TABLE / except: warn
                    IF upsert_name \notin pg_procs \/ fail = "drop_function"
                    THEN UNCHANGED pgServerVars
                    ELSE /\ pg_procs' = pg_procs \ {upsert_name}
                         /\ IF kv_name \notin pg_tables \/ fail = "drop_table"
                            THEN UNCHANGED << pg_tables, kv >>
                            ELSE /\ pg_tables' = DropTable(pg_tables)
                                 /\ kv' = IF kv_name \in pg_tables' THEN kv ELSE {}
    /\ UNCHANGED << table_names, scan_inner_limit, nonPG, closed >>

clear_table(t, fail) ==
    /\ PGIdle
    /\ IF FailsAtConnect(fail) \/ fail = "execute" \/ ~TableThere
       THEN /\ PGReturn("clear_table", "DriverError")
            /\ UNCHANGED pgServerVars
       ELSE /\ PGReturn("clear_table", "ok")
            /\ kv' = ClearRows(kv, t)
            /\ UNCHANGED << pg_tables, pg_procs >>
    /\ UNCHANGED << table_names, scan_inner_limit, nonPG, closed >>

\* What stops put at its j-th pair, "ok" when nothing does: the pair fails
\* validation, or the callproc of upsert_<ns> fails.
PutPairStatus(kvs, j, fail) ==
    LET ex == check_put_key_value(kvs[j][1], kvs[j][2], KeySpec)
    IN  IF ex # "ok" THEN ex
        ELSE IF fail = j \/ ~TableThere \/ ~RoutineThere THEN "DriverError"
        ELSE "ok"

\* All pairs are validated before the first is written.
PutStopAtFirst(kvs, fail) ==
    IF \A j \in 1..Len(kvs) : PutPairStatus(kvs, j, fail) = "ok"
    THEN Len(kvs) + 1 ELSE 1

\* The first pair at which put stops; Len(kvs) + 1 when it runs through.
PutStop(kvs, fail) ==
    LET bad == {j \in 1..Len(kvs) : PutPairStatus(kvs, j, fail) # "ok"}
    IN  IF bad = {} THEN Len(kvs) + 1
        ELSE CHOOSE j \in bad : \A o \in bad : j <= o

RECURSIVE UpsertAll(_, _, _, _)
\* callproc upsert_<ns> for the first n pairs, in argument order.
UpsertAll(rows, t, kvs, n) ==
    IF n = 0 THEN rows
    ELSE Upsert(UpsertAll(rows, t, kvs, n - 1), t,
                join_key_fragments(kvs[n][1], KeySpec), kvs[n][2])

put(t, kvs, fail) ==
    /\ PGIdle
    /\ IF t \notin table_names
       THEN /\ PGReturn("put", "KeyError")
            /\ UNCHANGED pgServerVars
       ELSE IF FailsAtConnect(IF fail = -1 THEN "connect" ELSE "none")
       THEN /\ PGReturn("put", "DriverError")
            /\ UNCHANGED pgServerVars
       ELSE LET stop == PutStop(kvs, fail)
            IN  /\ PGReturn("put", IF stop > Len(kvs) THEN "ok"
                                   ELSE PutPairStatus(kvs, stop, fail))
                /\ kv' = IF TableThere /\ RoutineThere
                         THEN UpsertAll(kv, t, kvs, stop - 1) ELSE kv
                /\ UNCHANGED << pg_tables, pg_procs >>
    /\ UNCHANGED << table_names, scan_inner_limit, nonPG, closed >>

RECURSIVE DeleteAll(_, _, _, _)
\* executemany(_DELETE, ...): the first n statements.
DeleteAll(rows, t, keys, n) ==
    IF n = 0 THEN rows
    ELSE DeleteRow(DeleteAll(rows, t, keys, n - 1), t,
                   join_key_fragments(keys[n], KeySpec))

delete(t, keys, fail) ==
    /\ PGIdle
    /\ IF t \notin table_names
       THEN /\ PGReturn("delete", "KeyError")
            /\ UNCHANGED pgServerVars
       ELSE IF \E j \in 1..Len(keys) : Len(keys[j]) # Len(KeySpec)
       THEN /\ PGReturn("delete", "Exception")
            /\ UNCHANGED pgServerVars
       ELSE IF FailsAtConnect(IF fail = -1 THEN "connect" ELSE "none") \/ ~TableThere
       THEN /\ PGReturn("delete", "DriverError")
            /\ UNCHANGED pgServerVars
       ELSE /\ PGReturn("delete", IF fail \in 1..Len(keys) THEN "DriverError" ELSE "ok")
            /\ kv' = DeleteAll(kv, t, keys,
                               IF fail \in 1..Len(keys) THEN fail - 1 ELSE Len(keys))
            /\ UNCHANGED << pg_tables, pg_procs >>
    /\ UNCHANGED << table_names, scan_inner_limit, nonPG, closed >>

(***************************************************************************)
(* PGStorage.get: a generator as well.  One step is one next() of the      *)
(* caller: the body runs to its next yield or to its end.                  *)
(***************************************************************************)
GetOver(g, how) == [NoGet EXCEPT !.pc = how, !.out = g.out, !.table = g.table,
                                  !.keys = g.keys]

\* What the loop body yields for one key: (key, None) when no row matches;
\* nothing when the row's value is over the ceiling; else the decoded pair.
GetYield(rows, t, key) ==
    LET hit == SelectKey(rows, t, join_key_fragments(key, KeySpec))
    IN  IF hit = {} THEN << [key |-> key, v |-> None] >>
        ELSE LET row == CHOOSE r \in hit : TRUE
             IN  IF TooBig(row.v) THEN << >>
                 ELSE << [key |-> split_key(row.k, KeySpec), v |-> Some(row.v)] >>

\* The first key at or after position i for which the body yields.
GetNextYield(rows, t, keys, i) ==
    LET ys == {j \in i..Len(keys) : GetYield(rows, t, keys[j]) # << >>}
    IN  IF ys = {} THEN Len(keys) + 1
        ELSE CHOOSE j \in ys : \A o \in ys : j <= o

\* get(table, *keys): the call only builds the generator.
GetCall(t, keys) ==
    /\ PGIdle
    /\ get_gen.pc \in {"none", "done", "failed"}
    /\ get_gen' = [NoGet EXCEPT !.pc = "created", !.table = t, !.keys = keys]
    /\ UNCHANGED << connection, table_names, scan_inner_limit, scan_gen, calls,
                    pgServerVars, nonPG, result, closed >>

GetNext(fail) ==
    /\ PGIdle
    /\ get_gen.pc \in {"created", "iter"}
    /\ LET first == get_gen.pc = "created"
           i0 == IF first THEN 1 ELSE get_gen.i
           cur == IF first THEN "open" ELSE get_gen.cursor
           j == GetNextYield(kv, get_gen.table, get_gen.keys, i0)
       IN  IF first /\ get_gen.table \notin table_names
           THEN /\ get_gen' = GetOver(get_gen, "failed")
                /\ result' = Res("get", "KeyError")
                /\ UNCHANGED connection
           ELSE IF first /\ FailsAtConnect(fail)
           THEN /\ get_gen' = GetOver(get_gen, "failed")
                /\ result' = Res("get", "DriverError")
                /\ UNCHANGED connection
           ELSE /\ connection' = IF first THEN _conn(connection) ELSE connection
                /\ IF i0 > Len(get_gen.keys)
                   THEN /\ get_gen' = GetOver(get_gen, "done")
                        /\ result' = Res("get", "ok")
                   ELSE IF fail = "execute" \/ cur # "open" \/ ~TableThere
                   THEN /\ get_gen' = GetOver(get_gen, "failed")
                        /\ result' = Res("get", "DriverError")
                   ELSE IF j > Len(get_gen.keys)
                   THEN /\ get_gen' = GetOver(get_gen, "done")
                        /\ result' = Res("get", "ok")
                   ELSE /\ get_gen' = [get_gen EXCEPT !.pc = "iter", !.i = j + 1,
                                          !.cursor = "open",
                                          !.out = @ \o GetYield(kv, get_gen.table,
                                                                get_gen.keys[j])]
                        /\ result' = Res("get", "yield")
    /\ UNCHANGED << table_names, scan_inner_limit, scan_gen, calls,
                    pgServerVars, nonPG, closed >>

\* close(): not wrapped.  if self.connection: close it; connection = None.
close ==
    /\ PGIdle
    /\ connection' = "None"
    /\ scan_gen' = CloseCursor(scan_gen)
    /\ get_gen' = CloseCursor(get_gen)
    /\ result' = Res("close", "ok")
    /\ closed' = TRUE
    /\ UNCHANGED << table_names, scan_inner_limit, calls, pgServerVars, nonPG >>

(***************************************************************************)
(* HBaseStorage (kvlayer/_hbase.py).  No operation is wrapped; the conn    *)
(* property connects whenever self._conn is unset.                         *)
(***************************************************************************)
serialize_key(key, key_spec) == join_key_fragments(key, key_spec)
deserialize_key(b, key_spec) == split_key(b, key_spec)

HBIdle == storage_type = "hbase"

\* The conn property: connect when self._conn is unset.
HBConn ==
    /\ hb_conn' = _conn(hb_conn)
    /\ hb_connected' = IF hb_conn = "None" THEN TRUE ELSE hb_connected

HBFailsAtConnect(fail) == fail = "connect" /\ hb_conn = "None"

hb_setup_namespace(ts, fail) ==
    /\ HBIdle
    /\ hb_table_names' = hb_table_names \cup ts
    /\ IF HBFailsAtConnect(fail)
       THEN /\ result' = Res("setup_namespace", "DriverError")
            /\ UNCHANGED << hb_conn, hb_connected, hb_tables >>
       ELSE /\ HBConn
            /\ IF fail = "execute"
               THEN /\ result' = Res("setup_namespace", "DriverError")
                    /\ UNCHANGED hb_tables
               ELSE /\ result' = Res("setup_namespace", "ok")
                    /\ hb_tables' = hb_tables \cup ts
    /\ UNCHANGED << hb_rows, hb_get, hb_scan_gen, max_batch_bytes, hb_last_put,
                    nonHB, closed >>

\* delete_namespace(): _delete_table for every table of conn.tables().  A
\* failure stops the loop after the tables dropped so far.
hb_delete_namespace(fail) ==
    /\ HBIdle
    /\ IF HBFailsAtConnect(fail)
       THEN /\ result' = Res("delete_namespace", "DriverError")
            /\ UNCHANGED << hb_conn, hb_connected, hb_tables, hb_rows >>
       ELSE /\ HBConn
            /\ IF fail = "execute" /\ hb_tables # {}
               THEN /\ result' = Res("delete_namespace", "DriverError")
                    /\ \E dropped \in (SUBSET hb_tables) \ {hb_tables} :
                          /\ hb_tables' = hb_tables \ dropped
                          /\ hb_rows' = {r \in hb_rows : r.t \notin dropped}
               ELSE /\ result' = Res("delete_namespace", "ok")
                    /\ hb_tables' = {}
                    /\ hb_rows' = {}
    /\ UNCHANGED << hb_table_names, hb_get, hb_scan_gen, max_batch_bytes,
                    hb_last_put, nonHB, closed >>

\* clear_table(table_name): _delete_table, then _create_table; fail says
\* which of the two requests the server refuses.
hb_clear_table(t, fail) ==
    /\ HBIdle
    /\ IF HBFailsAtConnect(fail)
       THEN /\ result' = Res("clear_table", "DriverError")
            /\ UNCHANGED << hb_conn, hb_connected, hb_tables, hb_rows >>
       ELSE /\ HBConn
            /\ IF t \notin hb_tables \/ fail = "delete"
               THEN \* conn.delete_table raises: the create is not reached
                    /\ result' = Res("clear_table", "DriverError")
                    /\ UNCHANGED << hb_tables, hb_rows >>
               ELSE /\ hb_rows' = {r \in hb_rows : r.t # t}
                    /\ IF fail = "create"
                       THEN /\ result' = Res("clear_table", "DriverError")
                            /\ hb_tables' = hb_tables \ {t}
                       ELSE /\ result' = Res("clear_table", "ok")
                            /\ hb_tables' = hb_tables
    /\ UNCHANGED << hb_table_names, hb_get, hb_scan_gen, max_batch_bytes,
                    hb_last_put, nonHB, closed >>

\* batch.send(): the mutations of the batch, in order; nothing to send is
\* no request at all.
RECURSIVE HBSend(_, _, _)
HBSend(rows, t, batch) ==
    IF batch = << >> THEN rows
    ELSE HBSend({r \in rows : ~(r.t = t /\ r.k = Head(batch)[1])}
                    \cup {[t |-> t, k |-> Head(batch)[1], v |-> Head(batch)[2]]},
                t, Tail(batch))

OverBudgetStrict(morelen, cur_bytes, budget) == morelen + cur_bytes > budget

\* "if (morelen + cur_bytes) >= self.max_batch_bytes"
OverBudget(morelen, cur_bytes, budget) == morelen + cur_bytes >= budget

\* "batch = table.batch()": a new batch, with nothing in it.
NewBatch(batch) == << >>

FinalFlushNever(cur_bytes) == FALSE

\* "if cur_bytes > 0: batch.send()"
FinalFlush(cur_bytes) == cur_bytes > 0

AbandonedButSent(rows, t, batch) == HBSend(rows, t, batch)

\* "raise ex", or batch.send() raises: the call ends, and what the unsent
\* batch holds is never written.
Abandoned(rows, t, batch) == rows

NoPut == [kvs |-> << >>, sent |-> << >>]

\* The batches the server has received, with one more.
Dispatched(sent, batch) == IF batch = << >> THEN sent ELSE Append(sent, batch)

RECURSIVE HBPutRun(_, _, _, _, _, _, _, _)
\* The loop of put from pair j on: rows on the server, the unsent batch and
\* its bytes, the batches sent.  A send fails when the table is missing or
\* a failure is injected (sends counts down to the send that fails); at is
\* the pair at which the call stopped.
HBPutRun(rows, t, batch, cur_bytes, kvs, j, sends, sent) ==
    LET sendFails == batch # << >> /\ (t \notin hb_tables \/ sends = 1)
        left == IF batch # << >> /\ sends > 0 THEN sends - 1 ELSE sends
        raised(ex) == [rows |-> Abandoned(rows, t, batch), status |-> ex,
                       sent |-> sent, at |-> j]
    IN  IF j > Len(kvs)
        THEN IF FinalFlush(cur_bytes)
             THEN IF sendFails THEN raised("DriverError")
                  ELSE [rows |-> HBSend(rows, t, batch), status |-> "ok",
                        sent |-> Dispatched(sent, batch), at |-> j]
             ELSE [rows |-> rows, status |-> "ok", sent |-> sent, at |-> j]
        ELSE LET ex == check_put_key_value(kvs[j][1], kvs[j][2], KeySpec)
                 skey == serialize_key(kvs[j][1], KeySpec)
                 morelen == kvs[j][2] + Len(skey)
             IN  IF ex # "ok" THEN raised(ex)
                 ELSE IF OverBudget(morelen, cur_bytes, max_batch_bytes)
                 THEN IF sendFails THEN raised("DriverError")
                      ELSE HBPutRun(HBSend(rows, t, batch), t,
                                    Append(NewBatch(batch), << skey, kvs[j][2] >>),
                                    morelen, kvs, j + 1, left,
                                    Dispatched(sent, batch))
                 ELSE HBPutRun(rows, t, Append(batch, << skey, kvs[j][2] >>),
                               cur_bytes + morelen, kvs, j + 1, sends, sent)

hb_put(t, kvs, fail) ==
    /\ HBIdle
    /\ IF t \notin hb_table_names
       THEN /\ result' = Res("put", "KeyError")
            /\ hb_last_put' = [kvs |-> kvs, sent |-> << >>]
            /\ UNCHANGED << hb_conn, hb_connected, hb_rows >>
       ELSE IF HBFailsAtConnect(IF fail = -1 THEN "connect" ELSE "none")
       THEN /\ result' = Res("put", "DriverError")
            /\ hb_last_put' = [kvs |-> kvs, sent |-> << >>]
            /\ UNCHANGED << hb_conn, hb_connected, hb_rows >>
       ELSE LET run == HBPutRun(hb_rows, t, << >>, 0, kvs, 1,
                                IF fail > 0 THEN fail ELSE 0, << >>)
            IN  /\ HBConn
                /\ result' = Res("put", run.status)
                /\ hb_rows' = run.rows
                /\ hb_last_put' = [kvs |-> kvs, sent |-> run.sent]
    /\ UNCHANGED << hb_table_names, hb_tables, hb_get, hb_scan_gen,
                    max_batch_bytes, nonHB, closed >>

\* batch.delete(serialize_key(key, key_spec)) for every key, then
\* batch.send().
HBDeleteAll(rows, t, keys) ==
    {r \in rows : ~(r.t = t /\ \E n \in 1..Len(keys) :
                                  r.k = serialize_key(keys[n], KeySpec))}

hb_delete(t, keys, fail) ==
    /\ HBIdle
    /\ IF t \notin hb_table_names
       THEN /\ result' = Res("delete", "KeyError")
            /\ UNCHANGED << hb_conn, hb_connected, hb_rows >>
       ELSE IF HBFailsAtConnect(fail)
       THEN /\ result' = Res("delete", "DriverError")
            /\ UNCHANGED << hb_conn, hb_connected, hb_rows >>
       ELSE /\ HBConn
            /\ IF keys # << >> /\ (fail = "execute" \/ t \notin hb_tables)
               THEN /\ result' = Res("delete", "DriverError")
                    /\ UNCHANGED hb_rows
               ELSE /\ result' = Res("delete", "ok")
                    /\ hb_rows' = HBDeleteAll(hb_rows, t, keys)
    /\ UNCHANGED << hb_table_names, hb_tables, hb_get, hb_scan_gen,
                    max_batch_bytes, hb_last_put, nonHB, closed >>

\* "if not start_key: srow = None / else: srow = make_start_key(...)"
HBRowStart(start_key) ==
    IF start_key = << >> THEN None ELSE Some(make_start_key(start_key, KeySpec))

HBRowStopAtKey(stop_key) ==
    IF stop_key = << >> THEN None ELSE Some(make_start_key(stop_key, KeySpec))

\* "if not stop_key: erow = None / else: erow = make_end_key(...)"
HBRowStop(stop_key) ==
    IF stop_key = << >> THEN None ELSE Some(make_end_key(stop_key, KeySpec))

\* table.scan(row_start, row_stop): row_start inclusive, row_stop exclusive,
\* None for no bound; rows come in the order of their keys.
HBScanRows(rows, t, srow, erow) ==
    SortAsc({r \in RowsOf(rows, t) :
                /\ srow = None \/ LexLeq(srow[1], r.k)
                /\ erow = None \/ LexLess(r.k, erow[1])})

\* What scan yields for one range.
HBScanRange(rows, t, ri, start_key, stop_key) ==
    LET found == HBScanRows(rows, t, HBRowStart(start_key), HBRowStop(stop_key))
    IN  [n \in 1..Len(found) |->
            [ri |-> ri, k |-> found[n].k,
             key |-> deserialize_key(found[n].k, KeySpec), v |-> found[n].v]]

RECURSIVE HBScanOut(_, _, _, _)
\* What scan yields for the ranges from the i-th on, in argument order.
HBScanOut(rows, t, ranges, i) ==
    IF i > Len(ranges) THEN << >>
    ELSE HBScanRange(rows, t, i, ranges[i][1], ranges[i][2])
            \o HBScanOut(rows, t, ranges, i + 1)

NoHBScan == [table |-> "t1", ranges |-> << >>, out |-> << >>]

\* scan(table, *key_ranges), drained by the caller.
hb_scan(t, key_ranges, fail) ==
    /\ HBIdle
    /\ IF t \notin hb_table_names
       THEN /\ result' = Res("scan", "KeyError")
            /\ hb_scan_gen' = [table |-> t, ranges |-> key_ranges, out |-> << >>]
            /\ UNCHANGED << hb_conn, hb_connected >>
       ELSE IF HBFailsAtConnect(fail)
       THEN /\ result' = Res("scan", "DriverError")
            /\ hb_scan_gen' = [table |-> t, ranges |-> key_ranges, out |-> << >>]
            /\ UNCHANGED << hb_conn, hb_connected >>
       ELSE LET ranges == IF key_ranges = << >> THEN << << << >>, << >> >> >>
                          ELSE key_ranges
            IN  /\ HBConn
                /\ IF fail = "execute" \/ t \notin hb_tables
                   THEN /\ result' = Res("scan", "DriverError")
                        /\ hb_scan_gen' = [table |-> t, ranges |-> key_ranges,
                                           out |-> << >>]
                   ELSE /\ result' = Res("scan", "ok")
                        /\ hb_scan_gen' = [table |-> t, ranges |-> key_ranges,
                                           out |-> HBScanOut(hb_rows, t, ranges, 1)]
    /\ UNCHANGED << hb_table_names, hb_tables, hb_rows, hb_get, max_batch_bytes,
                    hb_last_put, nonHB, closed >>

\* get's loop body for one key: scan (key, key), keep the value of the row
\* that decodes to the key.
HBGetValue(rows, t, key) ==
    LET found == HBScanRows(rows, t, HBRowStart(key), HBRowStop(key))
        same == {n \in 1..Len(found) : deserialize_key(found[n].k, KeySpec) = key}
    IN  IF same = {} THEN None
        ELSE Some(found[CHOOSE n \in same : \A o \in same : o <= n].v)

\* get(table, *keys): a generator; the call only builds it.
HBGetCall(t, keys) ==
    /\ HBIdle
    /\ hb_get.pc \in {"none", "done", "failed"}
    /\ hb_get' = [NoGet EXCEPT !.pc = "created", !.table = t, !.keys = keys]
    /\ UNCHANGED << hb_conn, hb_connected, hb_table_names, hb_tables, hb_rows,
                    hb_scan_gen, max_batch_bytes, hb_last_put,
                    nonHB, result, closed >>

\* One next(): the scan of the next key, then the yield of its pair.
HBGetNext(fail) ==
    /\ HBIdle
    /\ hb_get.pc \in {"created", "iter"}
    /\ LET i0 == IF hb_get.pc = "created" THEN 1 ELSE hb_get.i
       IN  IF i0 > Len(hb_get.keys)
           THEN /\ hb_get' = GetOver(hb_get, "done")
                /\ result' = Res("get", "ok")
                /\ UNCHANGED << hb_conn, hb_connected >>
           ELSE IF hb_get.table \notin hb_table_names
           THEN /\ hb_get' = GetOver(hb_get, "failed")
                /\ result' = Res("get", "KeyError")
                /\ UNCHANGED << hb_conn, hb_connected >>
           ELSE IF HBFailsAtConnect(fail)
           THEN /\ hb_get' = GetOver(hb_get, "failed")
                /\ result' = Res("get", "DriverError")
                /\ UNCHANGED << hb_conn, hb_connected >>
           ELSE /\ HBConn
                /\ IF fail = "execute" \/ hb_get.table \notin hb_tables
                   THEN /\ hb_get' = GetOver(hb_get, "failed")
                        /\ result' = Res("get", "DriverError")
                   ELSE /\ hb_get' = [hb_get EXCEPT !.pc = "iter", !.i = i0 + 1,
                               !.out = Append(@, [key |-> hb_get.keys[i0],
                                   v |-> HBGetValue(hb_rows, hb_get.table,
                                                    hb_get.keys[i0])])]
                        /\ result' = Res("get", "yield")
    /\ UNCHANGED << hb_table_names, hb_tables, hb_rows, hb_scan_gen,
                    max_batch_bytes, hb_last_put, nonHB, closed >>

\* close(): if self._connected: drop the connection.
hb_close ==
    /\ HBIdle
    /\ hb_connected' = FALSE
    /\ hb_conn' = IF hb_connected THEN "None" ELSE hb_conn
    /\ result' = Res("close", "ok")
    /\ closed' = TRUE
    /\ UNCHANGED << hb_table_names, hb_tables, hb_rows, hb_get, hb_scan_gen,
                    max_batch_bytes, hb_last_put, nonHB >>

(***************************************************************************)
(* FileStorage (src/kvlayer/_file_storage.py): a shelve file behind a      *)
(* singleton.  A key is a tuple of UUIDs; a UUID is modelled by a positive *)
(* integer, the string '' of an open bound by 0.                           *)
(***************************************************************************)
NoData == [tables |-> {}, rows |-> {}]

EmptyBound == << 0 >>

\* @_requires_connection (kvlayer._utils): the call goes through only when
\* the instance is connected.
_requires_connection(c) == c

ReaccessKeeps(c) == c

\* "self._connected = True": getinstance and setup_namespace connect the
\* instance again, whatever it was.
Reaccess(c) == TRUE

\* A file on disk: absent, of zero length, or a shelve database with the
\* pickled tables that were last written to it.
NoFile == [state |-> "absent", tables |-> {}, rows |-> {}]
ZeroFile == [state |-> "zero", tables |-> {}, rows |-> {}]
ShelfFile(d) == [state |-> "shelf", tables |-> d.tables, rows |-> d.rows]

\* config without copy_to_filename: one file, which holds d.
NoCopy(d) == [copy |-> FALSE, orig |-> NoFile, work |-> ShelfFile(d)]

CopyNever(files) == files.work

\* "if config.get('copy_to_filename'): shutil.copyfile(filename,
\* copy_to_filename); filename = copy_to_filename"
CopyToFilename(files) == IF files.copy THEN files.orig ELSE files.work

RemoveZeroNever(file) == file

\* "if os.path.exists(filename) and os.path.getsize(filename) == 0:
\* os.remove(filename)"
RemoveZero(file) == IF file.state = "zero" THEN NoFile ELSE file

\* shelve.open(filename) with the default flag 'c': a missing file is
\* created; a file of zero length is no database of any known type.
ShelveOpens(file) == file.state # "zero"
ShelveOpen(file) == IF file.state = "absent" THEN ShelfFile(NoData) ELSE file

\* Shelf.__setitem__ with an empty dict: the pickled empty table goes to
\* the file at once.
ShelfSet(file, t) ==
    [file EXCEPT !.tables = @ \cup {t}, !.rows = ClearRows(@, t)]

RECURSIVE ShelfSetAll(_, _)
ShelfSetAll(file, ts) ==
    IF ts = {} THEN file
    ELSE LET t == CHOOSE x \in ts : TRUE
         IN  ShelfSetAll(ShelfSet(file, t), ts \ {t})

\* Shelf.clear(): every key is deleted from the file.
ShelfClear(file) == [file EXCEPT !.tables = {}, !.rows = {}]

\* FileStorage(config): getinstance.  The first call builds the instance,
\* which copies, removes and opens the file; every call that gets an
\* instance marks it connected.
FileStorage ==
    /\ storage_type = "file"
    /\ IF instances
       THEN /\ connected' = Reaccess(connected)
            /\ result' = Res("FileStorage", "ok")
            /\ UNCHANGED << instances, data, f_files >>
       ELSE IF f_files.copy /\ f_files.orig.state = "absent"
       THEN \* shutil.copyfile raises
            /\ result' = Res("FileStorage", "IOError")
            /\ UNCHANGED << instances, data, connected, f_files >>
       ELSE LET kept == RemoveZero(CopyToFilename(f_files))
            IN  IF ~ShelveOpens(kept)
                THEN /\ result' = Res("FileStorage", "DbError")
                     /\ f_files' = [f_files EXCEPT !.work = kept]
                     /\ UNCHANGED << instances, data, connected >>
                ELSE /\ f_files' = [f_files EXCEPT !.work = ShelveOpen(kept)]
                     /\ data' = [tables |-> kept.tables, rows |-> kept.rows]
                     /\ instances' = TRUE
                     /\ connected' = Reaccess(connected)
                     /\ result' = Res("FileStorage", "ok")
    /\ UNCHANGED << f_out, nonFile, closed >>

\* A method is called on the handle the caller holds.
FileIdle == storage_type = "file" /\ instances

f_setup_namespace(ts) ==
    /\ FileIdle
    /\ data' = IF data.tables = {} THEN [data EXCEPT !.tables = ts] ELSE data
    /\ f_files' = IF data.tables = {}
                  THEN [f_files EXCEPT !.work = ShelfSetAll(@, ts)] ELSE f_files
    /\ connected' = Reaccess(connected)
    /\ result' = Res("setup_namespace", "ok")
    /\ UNCHANGED << instances, f_out, nonFile, closed >>

\* The call is refused: nothing changes.
FileRefused(op) ==
    /\ result' = Res(op, "ClosedClient")
    /\ UNCHANGED << data, f_out, f_files >>

f_delete_namespace ==
    /\ FileIdle
    /\ IF ~_requires_connection(connected) THEN FileRefused("delete_namespace")
       ELSE /\ data' = NoData
            /\ f_files' = [f_files EXCEPT !.work = ShelfClear(@)]
            /\ result' = Res("delete_namespace", "ok")
            /\ UNCHANGED f_out
    /\ UNCHANGED << instances, connected, nonFile, closed >>

f_clear_table(t) ==
    /\ FileIdle
    /\ IF ~_requires_connection(connected) THEN FileRefused("clear_table")
       ELSE /\ data' = [tables |-> data.tables \cup {t}, rows |-> ClearRows(data.rows, t)]
            /\ f_files' = [f_files EXCEPT !.work = ShelfSet(@, t)]
            /\ result' = Res("clear_table", "ok")
            /\ UNCHANGED f_out
    /\ UNCHANGED << instances, connected, nonFile, closed >>

create_if_missing(t) ==
    /\ FileIdle
    /\ IF ~_requires_connection(connected) THEN FileRefused("create_if_missing")
       ELSE /\ data' = [data EXCEPT !.tables = @ \cup {t}]
            /\ f_files' = IF t \in data.tables THEN f_files
                          ELSE [f_files EXCEPT !.work = ShelfSet(@, t)]
            /\ result' = Res("create_if_missing", "ok")
            /\ UNCHANGED f_out
    /\ UNCHANGED << instances, connected, nonFile, closed >>

RECURSIVE FilePutAll(_, _, _, _)
\* self._data[table_name][key] = val, pair by pair.
FilePutAll(rows, t, kvs, n) ==
    IF n = 0 THEN rows
    ELSE LET before == FilePutAll(rows, t, kvs, n - 1)
         IN  {r \in before : ~(r.t = t /\ r.k = kvs[n][1])}
                \cup {[t |-> t, k |-> kvs[n][1], v |-> kvs[n][2]]}

f_put(t, kvs) ==
    /\ FileIdle
    /\ IF ~_requires_connection(connected) THEN FileRefused("put")
       ELSE IF kvs # << >> /\ t \notin data.tables
       THEN /\ result' = Res("put", "KeyError")
            /\ UNCHANGED << data, f_out, f_files >>
       ELSE \* the table is changed in the cache of the shelf (writeback)
            /\ data' = [data EXCEPT !.rows = FilePutAll(@, t, kvs, Len(kvs))]
            /\ result' = Res("put", "ok")
            /\ UNCHANGED << f_out, f_files >>
    /\ UNCHANGED << instances, connected, nonFile, closed >>

\* "self._data[table_name].pop(key, None)" for every key.
FileDeleteAll(rows, t, keys) ==
    {r \in rows : ~(r.t = t /\ \E n \in 1..Len(keys) : r.k = keys[n])}

f_delete(t, keys) ==
    /\ FileIdle
    /\ IF ~_requires_connection(connected) THEN FileRefused("delete")
       ELSE IF keys # << >> /\ t \notin data.tables
       THEN /\ result' = Res("delete", "KeyError")
            /\ UNCHANGED << data, f_out, f_files >>
       ELSE /\ data' = [data EXCEPT !.rows = FileDeleteAll(@, t, keys)]
            /\ result' = Res("delete", "ok")
            /\ UNCHANGED << f_out, f_files >>
    /\ UNCHANGED << instances, connected, nonFile, closed >>

\* a <= b as Python 2 orders a UUID and a string: every UUID is less than
\* every string.
FieldLeq(a, b) ==
    IF a = 0 THEN b = 0
    ELSE IF b = 0 THEN TRUE
    ELSE a <= b

\* "for i in range(len(start)): start[i] <= key[i] <= finish[i]"
within_range(key, start, finish) ==
    \A i \in 1..Len(start) : FieldLeq(start[i], key[i]) /\ FieldLeq(key[i], finish[i])

\* What one range yields.
FileRangeFound(rows, t, start, finish) ==
    {<< r.k, r.v >> : r \in {x \in RowsOf(rows, t) :
        (start = EmptyBound /\ finish = EmptyBound) \/ within_range(x.k, start, finish)}}

FileRangeNeverMissing(found, start) == FALSE

\* "elif start != ('',): raise MissingID()" when the range found nothing.
FileRangeMissing(found, start) == found = {} /\ start # EmptyBound

\* The first range at which get raises MissingID; Len + 1 when none does.
FileGetStop(rows, t, ranges) ==
    LET bad == {i \in 1..Len(ranges) :
                   FileRangeMissing(FileRangeFound(rows, t, ranges[i][1], ranges[i][2]),
                                    ranges[i][1])}
    IN  IF bad = {} THEN Len(ranges) + 1
        ELSE CHOOSE i \in bad : \A o \in bad : i <= o

\* get(table, *key_ranges), drained by the caller.
f_get(t, key_ranges) ==
    /\ FileIdle
    /\ IF ~_requires_connection(connected)
       THEN /\ result' = Res("get", "ClosedClient")
            /\ f_out' = << >>
       ELSE IF t \notin data.tables
       THEN /\ result' = Res("get", "KeyError")
            /\ f_out' = << >>
       ELSE LET ranges == IF key_ranges = << >> THEN << << EmptyBound, EmptyBound >> >>
                          ELSE key_ranges
                stop == FileGetStop(data.rows, t, ranges)
            IN  /\ f_out' = [i \in 1..(stop - 1) |->
                                FileRangeFound(data.rows, t, ranges[i][1], ranges[i][2])]
                /\ result' = Res("get", IF stop > Len(ranges) THEN "ok" ELSE "MissingID")
    /\ UNCHANGED << instances, data, connected, f_files, nonFile, closed >>

\* close(): "prevent reading until connected again".
f_close ==
    /\ FileIdle
    /\ connected' = FALSE
    /\ result' = Res("close", "ok")
    /\ closed' = TRUE
    /\ UNCHANGED << instances, data, f_out, f_files, nonFile >>

(***************************************************************************)
(* The legacy relational client (src/kvlayer/_postgres.py under src/src):  *)
(* keys are joined hex text, get reads ranges.  A UUID is modelled by one  *)
(* hex digit.                                                              *)
(***************************************************************************)
\* self.tablespecs after setup_namespace({'t1': 2})
num_uuids == 2
tablespecs == {"t1"}

\* join_uuids(*uuids, num_uuids=n, padding=p): the hex text of the UUIDs,
\* padded to n UUIDs with the digit p.
join_uuids(uuids, n, padding) ==
    uuids \o [i \in 1..(n - Len(uuids)) |-> padding]

split_uuids(k) == k

lg_put(t, kvs) ==
    /\ storage_type = "legacy"
    /\ IF t \notin tablespecs
       THEN /\ result' = Res("put", "KeyError")
            /\ UNCHANGED << lg_connection, lg_rows >>
       ELSE LET bad == {j \in 1..Len(kvs) : Len(kvs[j][1]) # num_uuids}
                stop == IF bad = {} THEN Len(kvs) + 1
                        ELSE CHOOSE j \in bad : \A o \in bad : j <= o
                joined == [j \in 1..Len(kvs) |->
                              << join_uuids(kvs[j][1], Len(kvs[j][1]), 0), kvs[j][2] >>]
            IN  /\ lg_connection' = _conn(lg_connection)
                /\ lg_rows' = FilePutAll(lg_rows, t, joined, stop - 1)
                /\ result' = Res("put", IF bad = {} THEN "ok" ELSE "BadKey")
    /\ UNCHANGED << lg_out, nonLegacy, closed >>

\* _GET_RANGE: k >= kmin AND k <= kmax, text compared digit by digit; a
\* value over the ceiling is dropped by the client.
LgRangeRows(rows, t, kmin, kmax) ==
    {<< split_uuids(r.k), r.v >> : r \in {x \in RowsOf(rows, t) :
        /\ LexLeq(join_uuids(kmin, num_uuids, 0), x.k)
        /\ LexLeq(x.k, join_uuids(kmax, num_uuids, 15))
        /\ ~TooBig(x.v)}}

\* get(table, *key_ranges), drained by the caller: MissingID at the end
\* when ranges were given and no row was yielded.
lg_get(t, key_ranges) ==
    /\ storage_type = "legacy"
    /\ IF t \notin tablespecs
       THEN /\ result' = Res("get", "KeyError")
            /\ lg_out' = << >>
            /\ UNCHANGED lg_connection
       ELSE LET failOnEmptyResult == key_ranges # << >>
                ranges == IF key_ranges = << >> THEN << << << >>, << >> >> >>
                          ELSE key_ranges
                out == [i \in 1..Len(ranges) |->
                           LgRangeRows(lg_rows, t, ranges[i][1], ranges[i][2])]
            IN  /\ lg_connection' = _conn(lg_connection)
                /\ lg_out' = out
                /\ result' = Res("get", IF failOnEmptyResult
                                           /\ \A i \in 1..Len(out) : out[i] = {}
                                        THEN "MissingID" ELSE "ok")
    /\ UNCHANGED << lg_rows, nonLegacy, closed >>

(***************************************************************************)
(* Initial states.                                                         *)
(***************************************************************************)
NoResult == Res("none", "ok")

\* The byte budget of a batch a client has when no claim is about it,
\* scaled to the model's sizes (a key is 10 bytes, a value 1 or 2).
DefaultBudget == 24

\* The clients a behaviour is not about stay in these states.
IdlePG ==
    /\ pg_tables = {} /\ pg_procs = {} /\ kv = {}
    /\ connection = "None" /\ table_names = {} /\ scan_inner_limit = 1
    /\ scan_gen = NoScan /\ get_gen = NoGet /\ calls = CallsOff
IdleHB ==
    /\ hb_conn = "None" /\ hb_connected = FALSE /\ hb_table_names = {}
    /\ hb_tables = {} /\ hb_rows = {} /\ hb_get = NoGet
    /\ hb_scan_gen = NoHBScan /\ max_batch_bytes = DefaultBudget
    /\ hb_last_put = NoPut
IdleFile ==
    /\ instances = FALSE /\ data = NoData /\ connected = FALSE /\ f_out = << >>
    /\ f_files = NoCopy(NoData)
IdleLegacy ==
    /\ lg_connection = "None" /\ lg_rows = {} /\ lg_out = << >>

NoClient == [namespace |-> << >>, status |-> "none", sql |-> {}]

NoDb == [tables |-> {}, rows |-> {}, out |-> << >>]
NoUpserts == [rows |-> {}, lock |-> 0, pc |-> << >>, iters |-> << >>,
              budget |-> 0, deleted |-> 0]
NoCodec == [spec |-> << >>, a |-> << >>, b |-> << >>, ea |-> << >>,
            eb |-> << >>, da |-> << >>, db |-> << >>, start |-> << >>]
NoSetups == [tables |-> {}, procs |-> {}, pc |-> << >>, seen |-> << >>,
             todo |-> << >>]
NoColl == [ic |-> [typed |-> << >>, inst |-> << >>], ic_str |-> << >>,
           ic2 |-> << >>, accessed |-> {}, got |-> << >>]

\* The clients and programs a behaviour is not about.
IdleBackends == IdlePG /\ IdleHB /\ IdleFile /\ IdleLegacy

IdleAux ==
    /\ pg_client = NoClient
    /\ apps_db = NoDb
    /\ upserts = NoUpserts
    /\ codec = NoCodec
    /\ coll = NoColl
    /\ setups = NoSetups

\* Rows of table t holding, for each key of the pool, nothing, a value
\* within the ceiling or a value over it.
StoredRows(t, f) ==
    {[t |-> t, k |-> join_key_fragments(key, KeySpec), v |-> f[key]] :
        key \in {x \in DOMAIN f : f[x] # 0}}

\* A namespace that was set up and filled earlier; the client is new.
InitScan ==
    /\ storage_type = "postgres"
    /\ pg_tables = {kv_name} /\ pg_procs = {upsert_name}
    /\ \E f \in [KeyPool -> {0, 1, BigValue}] : kv = StoredRows("t1", f)
    /\ connection = "None" /\ table_names = {"t1"}
    /\ scan_inner_limit \in 1..MaxLimit
    /\ scan_gen = NoScan /\ get_gen = NoGet /\ calls = CallsOff
    /\ IdleHB /\ IdleFile /\ IdleLegacy
    /\ IdleAux
    /\ result = NoResult /\ closed = FALSE

\* The range lists a scan is called with: none, one range, two ranges.
ScanInputs ==
    {<< >>} \cup {<< << a, b >> >> : a \in RangeBounds, b \in RangeBounds}
            \cup {<< << << >>, b >>, << a, << >> >> >> :
                     a \in {<< >>, Key(<<97>>, 10)}, b \in {<< >>, Key(<<97>>, 10)}}

ScanStep == ScanStart \/ ScanQuery \/ ScanRow \/ ScanChunkEnd

NextScan ==
    \/ \E ranges \in ScanInputs : ScanCall("t1", ranges)
    \/ ScanStart
    \/ ScanQuery
    \/ ScanRow
    \/ ScanChunkEnd

\* Scans of a table that nothing modifies.
SpecScan == InitScan /\ [][NextScan]_vars

\* Two stored keys at most, limits 1 and 2.
InitScanFair ==
    /\ storage_type = "postgres"
    /\ pg_tables = {kv_name} /\ pg_procs = {upsert_name}
    /\ \E f \in [{AllKeys[1], AllKeys[2]} -> {0, 1}] : kv = StoredRows("t1", f)
    /\ connection = "None" /\ table_names = {"t1"}
    /\ scan_inner_limit \in {1, 2}
    /\ scan_gen = NoScan /\ get_gen = NoGet /\ calls = CallsOff
    /\ IdleHB /\ IdleFile /\ IdleLegacy
    /\ IdleAux
    /\ result = NoResult /\ closed = FALSE

\* Scans with a caller that keeps pulling and an interpreter that keeps
\* running the generator.
FairSpecScan == InitScanFair /\ [][NextScan]_vars /\ WF_vars(ScanStep)

(***************************************************************************)
(* The life of one client: calls in any order, driver failures at any      *)
(* call, on the relational or on the wide-column backend.                  *)
(***************************************************************************)
K1 == AllKeys[1]
K2 == AllKeys[2]
BadArityKey == << StrField(<<97>>) >>
BadTypeKey == << IntField(2), IntField(2) >>

InitConn ==
    /\ storage_type \in {"postgres", "hbase"}
    /\ IF storage_type = "postgres"
       THEN /\ pg_tables \in {{}, {kv_name}}
            /\ pg_procs = IF pg_tables = {} THEN {} ELSE {upsert_name}
            /\ kv = {}
            /\ connection = "None" /\ table_names = {}
            /\ scan_inner_limit = 2
            /\ scan_gen = NoScan /\ get_gen = NoGet /\ calls = CallsOff
            /\ IdleHB
       ELSE /\ IdlePG
            /\ hb_conn = "None" /\ hb_connected = FALSE /\ hb_table_names = {}
            /\ hb_tables \in {{}, {"t1"}} /\ hb_rows = {} /\ hb_get = NoGet
            /\ hb_scan_gen = NoHBScan /\ max_batch_bytes = DefaultBudget
            /\ hb_last_put = NoPut
    /\ IdleFile /\ IdleLegacy
    /\ IdleAux
    /\ result = NoResult /\ closed = FALSE

Fails == {"none", "connect", "execute"}
DropFails == Fails \cup {"drop_function", "drop_table"}

\* put argument lists: a good pair; a good pair, then a key of wrong arity;
\* a key of wrong type; a value over the ceiling.
ConnPuts == { << << K1, 1 >> >>, << << K1, 1 >>, << BadArityKey, 1 >> >>,
              << << BadTypeKey, 1 >> >>, << << K1, BigValue >> >> }

ConnDeletes == { << K1 >>, << BadArityKey >> }

ConnGets == { << K1 >>, << K2, K1 >> }

NextConn ==
    \/ \E fail \in Fails : setup_namespace({"t1"}, fail)
    \/ \E fail \in DropFails : delete_namespace(fail)
    \/ \E fail \in Fails : clear_table("t1", fail)
    \/ \E t \in Tables, kvs \in ConnPuts, fail \in -1..1 : put(t, kvs, fail)
    \/ \E t \in Tables, keys \in ConnDeletes, fail \in -1..1 : delete(t, keys, fail)
    \/ \E t \in Tables, keys \in ConnGets : GetCall(t, keys)
    \/ \E fail \in Fails : GetNext(fail)
    \/ \E t \in Tables : ScanCall(t, << >>)
    \/ ScanStart
    \/ ScanQuery
    \/ ScanRow
    \/ ScanChunkEnd
    \/ ScanDriverError
    \/ close
    \/ \E fail \in Fails : hb_setup_namespace({"t1"}, fail)
    \/ \E t \in Tables, kvs \in ConnPuts, fail \in -1..1 : hb_put(t, kvs, fail)
    \/ \E t \in Tables, keys \in ConnDeletes, fail \in Fails : hb_delete(t, keys, fail)
    \/ \E t \in Tables, keys \in ConnGets : HBGetCall(t, keys)
    \/ \E fail \in Fails : HBGetNext(fail)
    \/ hb_close

SpecConn == InitConn /\ [][NextConn]_vars

(***************************************************************************)
(* Reads and writes of one client on a namespace that holds rows already,  *)
(* some written by a client that does not check sizes; no driver failures. *)
(***************************************************************************)
InitData ==
    /\ storage_type \in {"postgres", "hbase"}
    /\ IF storage_type = "postgres"
       THEN /\ pg_tables = {kv_name} /\ pg_procs = {upsert_name}
            /\ \E f \in [{K1, K2} -> {0, 1, BigValue}] : kv = StoredRows("t1", f)
            /\ connection = "None" /\ table_names = {"t1"}
            /\ scan_inner_limit = 2
            /\ scan_gen = NoScan /\ get_gen = NoGet /\ calls = CallsOff
            /\ IdleHB
       ELSE /\ IdlePG
            /\ hb_conn = "None" /\ hb_connected = FALSE /\ hb_table_names = {"t1"}
            /\ hb_tables = {"t1"} /\ hb_get = NoGet
            /\ hb_scan_gen = NoHBScan /\ max_batch_bytes = DefaultBudget
            /\ hb_last_put = NoPut
            /\ \E f \in [{K1, K2} -> {0, 1}] : hb_rows = StoredRows("t1", f)
    /\ IdleFile /\ IdleLegacy
    /\ IdleAux
    /\ result = NoResult /\ closed = FALSE

\* put argument lists: one pair; one key twice; two keys; a key of wrong
\* arity after a good pair.
DataPuts == { << << K1, 1 >> >>, << << K1, 2 >> >>, << << K2, 1 >> >>,
              << << K1, 1 >>, << K1, 2 >> >>, << << K1, 2 >>, << K1, 1 >> >>,
              << << K2, 2 >>, << K1, 2 >> >>,
              << << K2, 2 >>, << BadArityKey, 1 >> >> }

DataGets == { << K1 >>, << K1, K2 >>, << K2, K1 >> }

NextData ==
    \/ \E kvs \in DataPuts : put("t1", kvs, 0)
    \/ \E keys \in {<< K1 >>, << K2, K1 >>} : delete("t1", keys, 0)
    \/ \E keys \in DataGets : GetCall("t1", keys)
    \/ GetNext("none")
    \/ \E kvs \in DataPuts : hb_put("t1", kvs, 0)
    \/ \E keys \in {<< K1 >>, << K2, K1 >>} : hb_delete("t1", keys, "none")
    \/ \E keys \in DataGets : HBGetCall("t1", keys)
    \/ HBGetNext("none")

SpecData == InitData /\ [][NextData]_vars

(***************************************************************************)
(* The file client and the legacy relational client.                       *)
(***************************************************************************)
FileKeys == { << 1, 1 >>, << 1, 3 >>, << 2, 2 >> }

FileRow(t, key, v) == [t |-> t, k |-> key, v |-> v]

\* The shelve file as an earlier process left it.
FileContents ==
    { NoData, [tables |-> {"t1"}, rows |-> {}],
      [tables |-> {"t1"}, rows |-> {FileRow("t1", << 1, 3 >>, 1)}] }

FileRanges ==
    { << >>, << << EmptyBound, EmptyBound >> >>,
      << << << 1, 1 >>, << 1, 3 >> >> >>,
      << << << 2, 1 >>, << 2, 3 >> >> >>,
      << << << 1, 1 >>, << 1, 1 >> >>, << << 2, 2 >>, << 2, 2 >> >> >> }

LegacyRanges ==
    { << >>, << << << >>, << >> >> >>,
      << << << 1 >>, << 1 >> >> >>,
      << << << 2, 1 >>, << 2, 3 >> >> >>,
      << << << 2, 2 >>, << 2, 2 >> >>, << << 1, 1 >>, << 1, 1 >> >> >> }

InitFile ==
    /\ storage_type \in {"file", "legacy"}
    /\ IdlePG /\ IdleHB
    /\ IF storage_type = "file"
       THEN /\ instances = FALSE /\ connected = FALSE /\ f_out = << >>
            /\ data \in FileContents /\ f_files = NoCopy(data)
            /\ IdleLegacy
       ELSE /\ IdleFile
            /\ lg_connection = "None" /\ lg_out = << >>
            /\ lg_rows \in {{}, {FileRow("t1", << 1, 3 >>, BigValue)}}
    /\ IdleAux
    /\ result = NoResult /\ closed = FALSE

NextFile ==
    \/ FileStorage
    \/ \E ts \in {{"t1"}, {"t1", "t2"}} : f_setup_namespace(ts)
    \/ f_delete_namespace
    \/ \E t \in Tables : f_clear_table(t)
    \/ \E t \in Tables : create_if_missing(t)
    \/ \E key \in FileKeys : f_put("t1", << << key, 1 >> >>)
    \/ \E key \in FileKeys : f_delete("t1", << key >>)
    \/ \E ranges \in FileRanges : f_get("t1", ranges)
    \/ f_close
    \/ \E key \in FileKeys \cup {<< 1 >>}, v \in SmallValues : lg_put("t1", << << key, v >> >>)
    \/ \E t \in Tables, ranges \in LegacyRanges : lg_get(t, ranges)

SpecFile == InitFile /\ [][NextFile]_vars

(***************************************************************************)
(* Scans of the wide-column client over a table that nothing modifies.     *)
(***************************************************************************)
InitHScan ==
    /\ storage_type = "hbase"
    /\ IdlePG /\ IdleFile /\ IdleLegacy
    /\ hb_conn = "None" /\ hb_connected = FALSE
    /\ hb_table_names = {"t1"} /\ hb_tables = {"t1"}
    /\ \E f \in [KeyPool -> {0, 2}] : hb_rows = StoredRows("t1", f)
    /\ hb_get = NoGet /\ hb_scan_gen = NoHBScan
    /\ max_batch_bytes = DefaultBudget /\ hb_last_put = NoPut
    /\ IdleAux
    /\ result = NoResult /\ closed = FALSE

NextHScan ==
    \/ \E ranges \in ScanInputs : hb_scan("t1", ranges, "none")
    \/ hb_close

SpecHScan == InitHScan /\ [][NextHScan]_vars

(***************************************************************************)
(* The life of a namespace: setup, writes, clear and delete in any order,  *)
(* on the relational or on the wide-column backend.  The caller logs its   *)
(* calls.  The database may hold the namespace already, and a table of     *)
(* somebody else.                                                          *)
(***************************************************************************)
\* A table that is not kvlayer's, with a name the pattern 'kv_' + namespace
\* matches ("_" matches any one character).
other_table == << "k", "v", "x", "n", "s" >>

NsTables == {{"t1"}, {"t1", "t2"}}

InitNs ==
    /\ storage_type \in {"postgres", "hbase"}
    /\ IF storage_type = "postgres"
       THEN /\ pg_tables \in SUBSET {kv_name, other_table}
            /\ pg_procs = IF kv_name \in pg_tables THEN {upsert_name} ELSE {}
            /\ kv \in IF kv_name \in pg_tables
                      THEN {{}, StoredRows("t2", [x \in {K1} |-> 2])}
                      ELSE {{}}
            /\ connection = "None" /\ table_names = {}
            /\ scan_inner_limit = 2
            /\ scan_gen = NoScan /\ get_gen = NoGet /\ calls = << >>
            /\ IdleHB
       ELSE /\ IdlePG
            /\ hb_conn = "None" /\ hb_connected = FALSE /\ hb_table_names = {}
            /\ hb_tables \in {{}, {"t1", "t2"}}
            /\ hb_rows \in IF hb_tables = {} THEN {{}}
                           ELSE {{}, StoredRows("t2", [x \in {K1} |-> 2])}
            /\ hb_get = NoGet /\ hb_scan_gen = NoHBScan
            /\ max_batch_bytes = DefaultBudget /\ hb_last_put = NoPut
    /\ IdleFile /\ IdleLegacy
    /\ IdleAux
    /\ result = NoResult /\ closed = FALSE

HBClearFails == {"none", "delete", "create"}

NextNs ==
    \/ \E ts \in NsTables : setup_namespace(ts, "none")
    \/ delete_namespace("none")
    \/ \E t \in Tables : clear_table(t, "none")
    \/ \E t \in Tables : put(t, << << K1, 1 >> >>, 0)
    \/ \E ts \in NsTables : hb_setup_namespace(ts, "none")
    \/ hb_delete_namespace("none")
    \/ \E t \in Tables, fail \in HBClearFails : hb_clear_table(t, fail)
    \/ \E t \in Tables : hb_put(t, << << K1, 1 >> >>, 0)

SpecNs == InitNs /\ [][NextNs]_vars

(***************************************************************************)
(* Batched writes of the wide-column client: every byte budget, items of   *)
(* every size against it, validation failures and failing sends.           *)
(***************************************************************************)
\* Byte budgets: below every item, one small item, two small items or one
\* large, two large items.
Budgets == {1, 12, 24, 48}

\* Lengths of the values; with the 10 bytes of a key an item has 12 or 24
\* bytes.
Sizes == {2, 14}

MaxPairs == 2       \* good pairs of one put

BatchKeys == << K1, K2, K1, K2 >>

\* The argument lists: up to MaxPairs good pairs, then perhaps a pair with
\* a key of wrong arity.
GoodPuts ==
    UNION { { [j \in 1..n |-> << BatchKeys[((j - 1) % 4) + 1], f[j] >>] :
                f \in [1..n -> Sizes] } : n \in 0..MaxPairs }

BatchPuts == GoodPuts \cup { Append(kvs, << BadArityKey, 1 >>) : kvs \in GoodPuts }

\* -1: the connection fails; 0: nothing fails; n: the n-th send fails.
SendFails == -1..MaxPairs

InitBatch ==
    /\ storage_type = "hbase"
    /\ IdlePG /\ IdleFile /\ IdleLegacy
    /\ hb_conn = "None" /\ hb_connected = FALSE
    /\ hb_table_names = {"t1"} /\ hb_tables = {"t1"} /\ hb_rows = {}
    /\ hb_get = NoGet /\ hb_scan_gen = NoHBScan
    /\ max_batch_bytes \in Budgets /\ hb_last_put = NoPut
    /\ IdleAux
    /\ result = NoResult /\ closed = FALSE

NextBatch ==
    \/ \E kvs \in BatchPuts, fail \in SendFails : hb_put("t1", kvs, fail)
    \/ hb_clear_table("t1", "none")

SpecBatch == InitBatch /\ [][NextBatch]_vars

(***************************************************************************)
(* Claims about the chunked scan.                                          *)
(***************************************************************************)
\* The range a scan with at most one range asks for.
ReqRange(g) == IF g.ranges = << >> THEN << << >>, << >> >> ELSE g.ranges[1]

\* The rows of table t that lie in range r.
RangeRows(t, r) ==
    {row \in RowsOf(kv, t) :
        /\ r[1] = << >> \/ LexLeq(make_start_key(r[1], KeySpec), row.k)
        /\ r[2] = << >> \/ LexLeq(row.k, make_end_key(r[2], KeySpec))}

OneRangeWithinCeiling(g) ==
    /\ Len(g.ranges) <= 1
    /\ \A row \in RangeRows(g.table, ReqRange(g)) : ~TooBig(row.v)

YieldedExactly(g) ==
    /\ Len(g.out) = Cardinality(RangeRows(g.table, ReqRange(g)))
    /\ {g.out[i].k : i \in 1..Len(g.out)}
            = {row.k : row \in RangeRows(g.table, ReqRange(g))}

\* C1: a scan of one range of an unmodified table whose rows are within the
\* size ceiling comes to have yielded exactly the keys of the range, each
\* once and none missing, whatever scan_inner_limit >= 1 is.
C1_ScanYieldsExactlyTheRange ==
    (scan_gen.pc = "created" /\ OneRangeWithinCeiling(scan_gen))
        ~> (scan_gen.pc # "created" /\ YieldedExactly(scan_gen))

\* C2: every scan of an unmodified table terminates, for every
\* scan_inner_limit >= 1 and every number of rows.
C2_ScanTerminates ==
    (scan_gen.pc = "created") ~> (scan_gen.pc \in {"done", "failed"})

\* C10: what a scan yields is grouped by range in argument order, and within
\* a range the keys are strictly ascending in encoded-byte order.
C10_ScanOrdered ==
    \A i \in 1..Len(scan_gen.out) : \A j \in 1..Len(scan_gen.out) :
        i < j =>
            /\ scan_gen.out[i].ri <= scan_gen.out[j].ri
            /\ scan_gen.out[i].ri = scan_gen.out[j].ri
                   => LexLess(scan_gen.out[i].k, scan_gen.out[j].k)

\* A scan of two ranges ended; its first range took more than one chunk.
C10_Witness ==
    /\ scan_gen.pc = "done"
    /\ scan_inner_limit = 2
    /\ Cardinality({i \in 1..Len(scan_gen.out) : scan_gen.out[i].ri = 1}) >= 3
    /\ \E i \in 1..Len(scan_gen.out) : scan_gen.out[i].ri = 2

\* With scan_inner_limit >= 2 the scan of C1 does end with the whole range.
ScanCompleteFromLimitTwo ==
    (scan_gen.pc = "created" /\ OneRangeWithinCeiling(scan_gen)
        /\ scan_inner_limit >= 2)
        ~> (scan_gen.pc = "done" /\ YieldedExactly(scan_gen))

\* A scan that ended normally yielded exactly its range.
ScanDoneIsComplete ==
    (scan_gen.pc = "done" /\ OneRangeWithinCeiling(scan_gen))
        => YieldedExactly(scan_gen)

(***************************************************************************)
(* Claims about the connection of one client.                              *)
(***************************************************************************)
ValidationErrors == {"BadKey", "ValueTooLarge", "KeyError", "Exception"}

\* C3: a step of the relational client that reports a driver error to the
\* caller, from a call or from the iteration of get or scan, leaves the
\* connection cleared.
C3_DriverErrorDetaches ==
    [][(result' # result /\ result'.status = "DriverError")
            => connection' = "None"]_vars

\* C4: a step of the relational client that reports a validation error and
\* started with an open connection ends with the connection open.
C4_ValidationKeepsConnection ==
    [][(result' # result /\ result'.status \in ValidationErrors
            /\ connection = "open") => connection' = "open"]_vars

\* C5: once close() has returned, the client holds no connection again, on
\* the relational and on the wide-column backend.
C5_ClosedStaysClosed ==
    closed => (connection = "None" /\ hb_conn = "None")

(***************************************************************************)
(* Claims about reads and writes.                                          *)
(***************************************************************************)
HasKey(kvs, key) == \E j \in 1..Len(kvs) : kvs[j][1] = key

\* The value of the last pair of kvs with that key.
LastValue(kvs, key) ==
    LET at == {j \in 1..Len(kvs) : kvs[j][1] = key}
    IN  kvs[CHOOSE j \in at : \A o \in at : o <= j][2]

OneRowPerKey(rows) ==
    \A r1 \in rows : \A r2 \in rows : (r1.t = r2.t /\ r1.k = r2.k) => r1 = r2

\* C7: after a put that returns, get of each key of the call yields the value
\* of the last pair with that key, get of any other key yields what it
\* yielded before, and the table holds one row per key.
C7_PutLastWriteWins ==
    [][\A kvs \in DataPuts :
          (put("t1", kvs, 0) /\ result'.status = "ok") =>
              /\ OneRowPerKey(kv')
              /\ \A key \in {K1, K2} :
                    GetYield(kv', "t1", key) =
                        IF HasKey(kvs, key)
                        THEN << [key |-> key, v |-> Some(LastValue(kvs, key))] >>
                        ELSE GetYield(kv, "t1", key)]_vars

\* A put returned and both keys hold a value that only a put can have
\* written.
C7_Witness ==
    /\ storage_type = "postgres"
    /\ result = Res("put", "ok")
    /\ GetYield(kv, "t1", K1) = << [key |-> K1, v |-> Some(2)] >>
    /\ GetYield(kv, "t1", K2) = << [key |-> K2, v |-> Some(2)] >>

\* C8: a get that ended normally yielded one pair per requested key, in the
\* order of the request, on the relational and the wide-column backend.
C8_GetYieldsEveryKey ==
    \A g \in {get_gen, hb_get} :
        g.pc = "done" =>
            /\ Len(g.out) = Len(g.keys)
            /\ \A i \in 1..Len(g.out) : g.out[i].key = g.keys[i]

(***************************************************************************)
(* Claims about the file client and the legacy relational client.          *)
(***************************************************************************)
FileDataOps == {"put", "get", "delete", "clear_table", "delete_namespace"}

FileDataOp ==
    \/ f_delete_namespace
    \/ \E t \in Tables : f_clear_table(t)
    \/ \E key \in FileKeys : f_put("t1", << << key, 1 >> >>)
    \/ \E key \in FileKeys : f_delete("t1", << key >>)
    \/ \E ranges \in FileRanges : f_get("t1", ranges)

FileReaccess == FileStorage \/ \E ts \in {{"t1"}, {"t1", "t2"}} : f_setup_namespace(ts)

FileNothingIn(t, r) ==
    ~\E row \in data.rows :
        /\ row.t = t
        /\ (r[1] = EmptyBound /\ r[2] = EmptyBound) \/ within_range(row.k, r[1], r[2])

FieldLess(a, b) ==
    IF TypeOf(a) = "int" THEN a.int < b.int ELSE LexLess(a.str, b.str)

RECURSIVE TupleLeq(_, _, _)
\* a <= b as tuples, compared over the fields both have (a bound may be a
\* prefix of a key); the empty tuple bounds nothing.
TupleLeq(a, b, i) ==
    IF i > Min(Len(a), Len(b)) THEN TRUE
    ELSE IF a[i] = b[i] THEN TupleLeq(a, b, i + 1)
    ELSE FieldLess(a[i], b[i])

\* min <= key <= max
InRange(key, r) == TupleLeq(r[1], key, 1) /\ TupleLeq(key, r[2], 1)

\* The (key, value) pairs of range r that get returns a value for.
GetPairsIn(rows, t, r) ==
    {<< key, GetYield(rows, t, key)[1].v[1] >> :
        key \in {x \in KeyPool : /\ InRange(x, r)
                                 /\ GetYield(rows, t, x) # << >>
                                 /\ GetYield(rows, t, x)[1].v # None}}

\* What the scan yielded for its i-th range.
ScanPairs(out, i) == {<< out[n].key, out[n].v >> : n \in {m \in 1..Len(out) : out[m].ri = i}}

\* C11: a scan of the relational backend that ended yielded, for each of its
\* ranges (min, max), exactly the keys k with min <= k <= max that get
\* returns a value for, each once and with that value; an empty bound does
\* not bound, no ranges is the whole table, (k, k) is k alone.
C11_ScanMatchesGet ==
    scan_gen.pc = "done" =>
        \A i \in 1..Len(scan_gen.ranges) :
            /\ ScanPairs(scan_gen.out, i)
                  = GetPairsIn(kv, scan_gen.table, scan_gen.ranges[i])
            /\ Cardinality({m \in 1..Len(scan_gen.out) : scan_gen.out[m].ri = i})
                  = Cardinality(GetPairsIn(kv, scan_gen.table, scan_gen.ranges[i]))

\* The same, for tables whose rows in the range are all within the ceiling.
ScanMatchesGetWithinCeiling ==
    (scan_gen.pc = "done"
        /\ \A row \in RowsOf(kv, scan_gen.table) : ~TooBig(row.v))
        => C11_ScanMatchesGet

\* The (key, value) pairs stored in table t with min <= key <= max.
StoredPairsIn(rows, t, r) ==
    {<< deserialize_key(row.k, KeySpec), row.v >> :
        row \in {x \in RowsOf(rows, t) : InRange(deserialize_key(x.k, KeySpec), r)}}

\* The ranges a scan works on: the whole table when none is given.
RangesOf(key_ranges) ==
    IF key_ranges = << >> THEN << << << >>, << >> >> >> ELSE key_ranges

\* C12: a scan of the wide-column backend yields, for each range
\* (start, end), every stored key with start <= key <= end, the key equal to
\* end and the keys that have end as a prefix included, each once, and no
\* other key; an empty bound does not bound, no ranges is the whole table.
C12_HBScanInclusive ==
    (storage_type = "hbase" /\ result = Res("scan", "ok")) =>
        \A i \in 1..Len(RangesOf(hb_scan_gen.ranges)) :
            /\ ScanPairs(hb_scan_gen.out, i)
                  = StoredPairsIn(hb_rows, hb_scan_gen.table,
                                  RangesOf(hb_scan_gen.ranges)[i])
            /\ Cardinality({m \in 1..Len(hb_scan_gen.out) : hb_scan_gen.out[m].ri = i})
                  = Cardinality(StoredPairsIn(hb_rows, hb_scan_gen.table,
                                              RangesOf(hb_scan_gen.ranges)[i]))

\* A scan from the prefix ("a",) to the stored key ("a",10) yielded that key
\* and another one.
C12_Witness ==
    /\ storage_type = "hbase" /\ result = Res("scan", "ok")
    /\ hb_scan_gen.ranges = << << << StrField(<<97>>) >>, Key(<<97>>, 10) >> >>
    /\ Len(hb_scan_gen.out) >= 2
    /\ \E n \in 1..Len(hb_scan_gen.out) : hb_scan_gen.out[n].key = Key(<<97>>, 10)

(***************************************************************************)
(* Claims about the life of a namespace.                                   *)
(***************************************************************************)
\* The log ends with the calls of seq.
EndsWith(log, seq) ==
    /\ Len(log) >= Len(seq)
    /\ SubSeq(log, Len(log) - Len(seq) + 1, Len(log)) = seq

\* C13: on the relational backend, setup_namespace on a namespace that
\* exists already, for the same or for more tables, succeeds and leaves
\* every row as it was: get of each key yields what it yielded before.
C13_SetupKeepsRows ==
    [][\A ts \in NsTables :
          (setup_namespace(ts, "none") /\ TableThere) =>
              /\ result'.status = "ok"
              /\ kv' = kv
              /\ \A t \in Tables : \A key \in {K1, K2} :
                    GetYield(kv', t, key) = GetYield(kv, t, key)]_vars

\* setup_namespace, put, setup_namespace: the row of the put is there.
C13_Witness ==
    /\ storage_type = "postgres"
    /\ EndsWith(calls, << "setup_namespace", "put", "setup_namespace" >>)
    /\ GetYield(kv, "t1", K1) = << [key |-> K1, v |-> Some(1)] >>

\* put and get on table t find the table (they raise KeyError otherwise).
FileUsable(d, t) == t \in d.tables

\* C14: on the file backend, setup_namespace makes every table it declares
\* usable, also when the store holds tables already, and leaves the rows of
\* the store as they were.
C14_FileSetupExtendsSchema ==
    [][\A ts \in NsTables :
          f_setup_namespace(ts) =>
              /\ \A t \in ts : FileUsable(data', t)
              /\ data'.rows = data.rows]_vars

\* On a store without tables setup_namespace does make its tables usable.
FileSetupOnEmptyStore ==
    [][\A ts \in NsTables :
          (f_setup_namespace(ts) /\ data.tables = {}) =>
              /\ \A t \in ts : FileUsable(data', t)
              /\ data'.rows = data.rows]_vars

\* The namespace is not there: neither its table nor its routine.
NamespaceAbsent(tables, procs) == kv_name \notin tables /\ upsert_name \notin procs

RoundTrip == << "setup_namespace", "delete_namespace", "setup_namespace" >>

\* C15: on the relational backend, delete_namespace on a namespace that is
\* not there returns normally and changes nothing on the server; and after
\* setup_namespace, delete_namespace, setup_namespace on a database that
\* holds no table of somebody else under a matching name, the state is that
\* of one setup_namespace on a fresh store: the table kv_<ns> and the routine
\* upsert_<ns> exist and the table holds no rows.
C15_DeleteThenSetupIsFresh ==
    [][/\ (delete_namespace("none") /\ NamespaceAbsent(pg_tables, pg_procs))
              => (result'.status = "ok" /\ UNCHANGED pgServerVars)
       /\ (storage_type = "postgres" /\ EndsWith(calls', RoundTrip)
              /\ other_table \notin pg_tables')
              => (TableThere' /\ RoutineThere' /\ kv' = {})]_vars

\* The caller's last three calls were setup_namespace, delete_namespace,
\* setup_namespace, and all three returned.
C15_Witness ==
    /\ storage_type = "postgres"
    /\ EndsWith(calls, RoundTrip)
    /\ other_table \notin pg_tables
    /\ TableThere /\ RoutineThere /\ kv = {}

\* The same whatever else the database holds.  (It does not hold: with a
\* matching table of somebody else the check finds "the namespace" and
\* setup_namespace creates nothing.)
RoundTripAnywhere ==
    (storage_type = "postgres" /\ EndsWith(calls, RoundTrip))
        => (TableThere /\ RoutineThere /\ kv = {})

\* C16: on the relational backend, once delete_namespace has returned
\* normally (the errors of its DROP statements are swallowed), neither the
\* routine upsert_<ns> nor the table kv_<ns> exists.
C16_DeleteLeavesNothing ==
    [][\A fail \in DropFails :
          (delete_namespace(fail) /\ result'.status = "ok")
              => NamespaceAbsent(pg_tables', pg_procs')]_vars

\* The same for the calls in which no DROP statement fails and the routine
\* is there when the table is.
DeleteLeavesNothingWhenDropsWork ==
    [][(delete_namespace("none") /\ result'.status = "ok"
            /\ (TableThere => RoutineThere))
              => NamespaceAbsent(pg_tables', pg_procs')]_vars

(***************************************************************************)
(* Claims about the batched writes of the wide-column client.              *)
(***************************************************************************)
\* The writes of the first m pairs of a call, in argument order.
WritesOf(kvs, m) ==
    [j \in 1..m |-> << serialize_key(kvs[j][1], KeySpec), kvs[j][2] >>]

\* The writes of a sequence of batches, batch after batch.
RECURSIVE Flatten(_)
Flatten(batches) ==
    IF batches = << >> THEN << >> ELSE Head(batches) \o Flatten(Tail(batches))

\* The bytes of a batch, as put counts them.
BatchBytes(batch) ==
    LET RECURSIVE Sum(_)
        Sum(n) == IF n = 0 THEN 0
                  ELSE Len(batch[n][1]) + batch[n][2] + Sum(n - 1)
    IN  Sum(Len(batch))

HBPutReturned(status) ==
    storage_type = "hbase" /\ result = Res("put", status)

\* C17: when put of the wide-column client returns normally, the batches the
\* server received hold every pair of the call, each in exactly one batch and
\* in argument order, no batch is empty, and get of every key of the call
\* returns the value the call gave it last; for every byte budget and every
\* combination of item sizes.
C17_PutSendsEveryPair ==
    HBPutReturned("ok") =>
        LET kvs == hb_last_put.kvs
            sent == hb_last_put.sent
        IN  /\ Flatten(sent) = WritesOf(kvs, Len(kvs))
            /\ \A b \in 1..Len(sent) : sent[b] # << >>
            /\ \A j \in 1..Len(kvs) :
                   HBGetValue(hb_rows, "t1", kvs[j][1])
                       = Some(LastValue(kvs, kvs[j][1]))

\* A put returned normally after two batches, the first of one item that
\* alone reaches the budget.
C17_Witness ==
    /\ HBPutReturned("ok")
    /\ Len(hb_last_put.sent) >= 2
    /\ Len(hb_last_put.sent[1]) = 1
    /\ BatchBytes(hb_last_put.sent[1]) >= max_batch_bytes

HBPutEnded == storage_type = "hbase" /\ result.op = "put"

\* Every batch the server received with two or more writes is below the
\* budget.
BatchesWithinBudget ==
    \A b \in 1..Len(hb_last_put.sent) :
        Len(hb_last_put.sent[b]) >= 2
            => BatchBytes(hb_last_put.sent[b]) < max_batch_bytes

\* The bytes of all items of the last put, which returned normally.
CallBytes == BatchBytes(WritesOf(hb_last_put.kvs, Len(hb_last_put.kvs)))

\* C18: every batch of two or more writes that put of the wide-column client
\* sent has fewer than max_batch_bytes bytes; a call of two or more items
\* that total at least max_batch_bytes and returns normally has sent at
\* least two batches; a call of one item has sent exactly one batch,
\* whatever the size of the item.
C18_BatchesWithinBudget ==
    /\ HBPutEnded => BatchesWithinBudget
    /\ HBPutReturned("ok") =>
          /\ Len(hb_last_put.kvs) >= 2 /\ CallBytes >= max_batch_bytes
                 => Len(hb_last_put.sent) >= 2
          /\ Len(hb_last_put.kvs) = 1 => Len(hb_last_put.sent) = 1

\* Two items that together reach the budget, neither alone: two batches.
C18_Witness ==
    /\ HBPutReturned("ok")
    /\ Len(hb_last_put.kvs) = 2
    /\ CallBytes >= max_batch_bytes
    /\ \A b \in 1..Len(hb_last_put.sent) :
           BatchBytes(hb_last_put.sent[b]) < max_batch_bytes
    /\ Len(hb_last_put.sent) = 2

\* C18 as stated: every call whose items total at least max_batch_bytes has
\* sent at least two batches.
C18_TotalOverBudgetSendsTwo ==
    /\ HBPutEnded => BatchesWithinBudget
    /\ HBPutReturned("ok") /\ CallBytes >= max_batch_bytes
           => Len(hb_last_put.sent) >= 2

\* The first pair of the call that put refuses; one past the end when it
\* refuses none.
FirstBad(kvs) ==
    LET bad == {j \in 1..Len(kvs) :
                    check_put_key_value(kvs[j][1], kvs[j][2], KeySpec) # "ok"}
    IN  IF bad = {} THEN Len(kvs) + 1
        ELSE CHOOSE j \in bad : \A o \in bad : j <= o

\* This step is a put of the wide-column client that raises.
HBPutFails ==
    /\ \E fail \in SendFails : hb_put("t1", hb_last_put'.kvs, fail)
    /\ result'.status # "ok"

\* C19: when put of the wide-column client raises, at the pair that fails
\* validation or at a send that fails, the batches the server received are
\* the first m pairs of the call in argument order, the rows of the server
\* are those before the call with exactly these writes applied, and m is
\* below the position of the failure: no pair of the batch that was pending
\* or whose send failed, and no later pair, is written.
C19_FailedPutLeavesPrefix ==
    [][HBPutFails =>
          LET kvs == hb_last_put'.kvs
              written == Flatten(hb_last_put'.sent)
              m == Len(written)
              reached == FirstBad(kvs) - 1
          IN  /\ m <= reached
              /\ written = WritesOf(kvs, m)
              /\ hb_rows' = HBSend(hb_rows, "t1", written)
              /\ result'.status = "DriverError" => m < reached \/ reached = 0]_vars

\* A put that raised after a batch had been sent and with a batch pending:
\* the first is on the server, the second is not.
C19_Witness ==
    /\ HBPutEnded /\ result.status \in {"BadKey", "DriverError"}
    /\ Len(hb_last_put.sent) >= 1
    /\ Len(Flatten(hb_last_put.sent)) < FirstBad(hb_last_put.kvs) - 1
    /\ \E r \in hb_rows :
           r.k = serialize_key(hb_last_put.kvs[1][1], KeySpec)
    /\ \A r \in hb_rows :
           r.k # serialize_key(hb_last_put.kvs[2][1], KeySpec)

(***************************************************************************)
(* Claims about clear_table.                                               *)
(***************************************************************************)
\* Table t is there and empty, and the rows of the other tables are as
\* before.  A second clear_table(t) from such a state finds the table, has
\* nothing to remove and leaves the same state.
Cleared(there, before, after, t) ==
    /\ there
    /\ RowsOf(after, t) = {}
    /\ \A o \in Tables \ {t} : RowsOf(after, o) = RowsOf(before, o)

PGCleared(t) ==
    /\ Cleared(TableThere', kv, kv', t)
    /\ ClearRows(kv', t) = kv'

HBCleared(t) ==
    /\ Cleared(t \in hb_tables', hb_rows, hb_rows', t)
    /\ HBScanOut(hb_rows', t, << << << >>, << >> >> >>, 1) = << >>

\* C20: after clear_table(T) of the relational or of the wide-column client
\* has returned, and also after clear_table(T) of the wide-column client has
\* dropped the table and failed to create it, table T exists and holds no
\* row, every other table holds the rows it held, and a second clear_table(T)
\* changes nothing.
C20_ClearTableKeepsTable ==
    [][/\ \A t \in Tables :
              clear_table(t, "none") /\ result'.status = "ok" => PGCleared(t)
       /\ \A t \in Tables, fail \in HBClearFails :
              /\ hb_clear_table(t, fail)
              /\ result'.status = "ok" \/ (fail = "create" /\ t \in hb_tables)
              => HBCleared(t)]_vars

\* The same, for the calls of clear_table that return normally.
ClearTableThatReturns ==
    [][/\ \A t \in Tables :
              clear_table(t, "none") /\ result'.status = "ok" => PGCleared(t)
       /\ \A t \in Tables, fail \in HBClearFails :
              hb_clear_table(t, fail) /\ result'.status = "ok"
              => HBCleared(t)]_vars

\* When clear_table of the wide-column client fails, the rows of the other
\* tables are as before.
FailedClearKeepsOthers ==
    [][\A t \in Tables, fail \in HBClearFails :
           hb_clear_table(t, fail) /\ result'.status # "ok"
           => \A o \in Tables \ {t} : RowsOf(hb_rows', o) = RowsOf(hb_rows, o)]_vars

(***************************************************************************)
(* delete on the relational, the wide-column and the file client, over     *)
(* tables that hold some keys of the call and lack others.                 *)
(***************************************************************************)
\* Key lists for delete: none, one key, two keys, one key twice.
DelKeys == { << >>, << K1 >>, << K2, K1 >>, << K1, K1 >> }

FileDelKeys == { << >>, << << 1, 1 >> >>, << << 2, 2 >>, << 1, 1 >> >>,
                 << << 1, 1 >>, << 1, 1 >> >> }

InitDelete ==
    /\ storage_type \in {"postgres", "hbase", "file"}
    /\ IF storage_type = "postgres"
       THEN /\ pg_tables = {kv_name} /\ pg_procs = {upsert_name}
            /\ \E f \in [{K1, K2} -> {0, 1, BigValue}] : kv = StoredRows("t1", f)
            /\ connection = "None" /\ table_names = {"t1"}
            /\ scan_inner_limit = 2
            /\ scan_gen = NoScan /\ get_gen = NoGet /\ calls = CallsOff
            /\ IdleHB /\ IdleFile
       ELSE IF storage_type = "hbase"
       THEN /\ IdlePG /\ IdleFile
            /\ hb_conn = "None" /\ hb_connected = FALSE /\ hb_table_names = {"t1"}
            /\ hb_tables = {"t1"} /\ hb_get = NoGet
            /\ hb_scan_gen = NoHBScan /\ max_batch_bytes = DefaultBudget
            /\ hb_last_put = NoPut
            /\ \E f \in [{K1, K2} -> {0, 1}] : hb_rows = StoredRows("t1", f)
       ELSE /\ IdlePG /\ IdleHB
            /\ instances = FALSE /\ connected = FALSE /\ f_out = << >>
            /\ data \in FileContents \ {NoData} /\ f_files = NoCopy(data)
    /\ IdleLegacy
    /\ IdleAux
    /\ result = NoResult /\ closed = FALSE

NextDelete ==
    \/ \E kvs \in DataPuts : put("t1", kvs, 0)
    \/ \E keys \in DelKeys : delete("t1", keys, 0)
    \/ \E kvs \in DataPuts : hb_put("t1", kvs, 0)
    \/ \E keys \in DelKeys : hb_delete("t1", keys, "none")
    \/ FileStorage
    \/ \E key \in FileKeys, v \in SmallValues : f_put("t1", << << key, v >> >>)
    \/ \E keys \in FileDelKeys : f_delete("t1", keys)

SpecDelete == InitDelete /\ [][NextDelete]_vars

(***************************************************************************)
(* Claims about delete.                                                    *)
(***************************************************************************)
InKeys(keys, key) == \E n \in 1..Len(keys) : keys[n] = key

PGStored(rows, key) == SelectKey(rows, "t1", join_key_fragments(key, KeySpec))

\* What get((key, key)) of the file client does: the pairs found, or
\* nothing when it raises MissingID.
FileGetOne(rows, t, key) ==
    LET found == FileRangeFound(rows, t, key, key)
    IN  IF FileRangeMissing(found, key) THEN None ELSE Some(found)

FilesBefore == {NoFile, ZeroFile} \cup {ShelfFile(d) : d \in FileContents}

ShelfConfigs ==
    {[copy |-> FALSE, orig |-> NoFile, work |-> w] : w \in FilesBefore}
        \cup {[copy |-> TRUE, orig |-> o, work |-> w] :
                 o \in FilesBefore, w \in {NoFile, ShelfFile(NoData)}}

InitShelf ==
    /\ storage_type = "file"
    /\ IdlePG /\ IdleHB /\ IdleLegacy
    /\ instances = FALSE /\ connected = FALSE /\ f_out = << >>
    /\ data = NoData
    /\ f_files \in ShelfConfigs
    /\ IdleAux
    /\ result = NoResult /\ closed = FALSE

NextShelf ==
    \/ FileStorage
    \/ f_setup_namespace({"t1"})
    \/ f_delete_namespace
    \/ f_clear_table("t1")
    \/ \E key \in {<< 1, 1 >>, << 1, 3 >>} : f_put("t1", << << key, 2 >> >>)
    \/ \E key \in {<< 1, 1 >>, << 1, 3 >>} : f_delete("t1", << key >>)
    \/ f_close

SpecShelf == InitShelf /\ [][NextShelf]_vars

(***************************************************************************)
(* Claims about the files of the file client.                              *)
(***************************************************************************)
FileClosed ==
    storage_type = "file" /\ instances /\ result = Res("close", "ok")

\* C22: when close() of the file client has returned, the file the store was
\* opened on holds the tables and rows the client holds, so that whoever
\* opens the file reads every put and delete made before the close.
C22_CloseFlushes == FileClosed => f_files.work = ShelfFile(data)

\* The tables the client holds are the tables of the file, at all times:
\* what setup_namespace, clear_table, create_if_missing and delete_namespace
\* write goes to the file at once.
TablesReachFile ==
    (storage_type = "file" /\ instances) =>
        /\ f_files.work.state = "shelf"
        /\ f_files.work.tables = data.tables

\* The first FileStorage(config) of the process.
FileBuilt == FileStorage /\ ~instances

\* C23: with copy_to_filename set, the first FileStorage(config) opens a copy
\* of the file at filename, and no operation changes the file at filename,
\* whatever it changes in the copy; and a working file of zero length is
\* removed before it is opened, so that the store opens, empty.
C23_OriginalUntouched ==
    [][/\ f_files.copy => f_files'.orig = f_files.orig
       /\ (FileBuilt /\ f_files.copy /\ f_files.orig.state = "shelf")
              => /\ instances'
                 /\ f_files'.work = f_files.orig
                 /\ ShelfFile(data') = f_files.orig
       /\ (FileBuilt /\ CopyToFilename(f_files).state = "zero")
              => /\ instances' /\ result'.status = "ok"
                 /\ f_files'.work = ShelfFile(NoData)
                 /\ data' = NoData]_vars

\* The store was opened on a copy of a file that holds rows, clear_table
\* emptied the copy, and the file at filename holds its rows.
C23_Witness ==
    /\ storage_type = "file" /\ instances /\ f_files.copy
    /\ f_files.orig.state = "shelf" /\ f_files.orig.rows # {}
    /\ f_files.work.rows = {}
    /\ result = Res("clear_table", "ok")

(***************************************************************************)
(* PGStorage.__init__ and the SQL text built from the namespace.  A        *)
(* namespace is a sequence of characters.                                  *)
(***************************************************************************)
MaxNsLen == 2       \* characters of a namespace

\* A letter in each case, the underscore, a digit, the dollar sign, and
\* three characters no identifier has.
NsChars == {"a", "Z", "_", "7", "$", " ", "'", ";"}

Namespaces == UNION {[1..n -> NsChars] : n \in 0..MaxNsLen}

\* [a-z_] and [a-z0-9_$] under re.IGNORECASE
IdentStart(c) == c \in {"a", "Z", "_"}
IdentPart(c) == c \in {"a", "Z", "_", "7", "$"}

\* _psql_identifier_re.match(x): the pattern is tried at the start of x and
\* matches the longest run it can; -1 when it matches nothing.
ReMatch(x) ==
    IF x = << >> \/ ~IdentStart(x[1]) THEN -1
    ELSE LET stop == {i \in 2..Len(x) : ~IdentPart(x[i])}
         IN  IF stop = {} THEN Len(x)
             ELSE (CHOOSE i \in stop : \A o \in stop : i <= o) - 1

\* "return bool(_psql_identifier_re.match(x))"
_valid_namespace(x) == ReMatch(x) >= 0

\* '...{namespace}...'.format(namespace=self._namespace)
SqlText(head, ns, tail) == << head >> \o ns \o << tail >>

\* PGStorage() for a config with this namespace.
PGStorage(ns) ==
    /\ storage_type = "postgres"
    /\ LET status == IF _valid_namespace(ns) THEN "ok" ELSE "ProgrammerError"
       IN  /\ pg_client' = [namespace |-> ns, status |-> status, sql |-> {}]
           /\ result' = Res("PGStorage", status)
    /\ UNCHANGED nonCtor

\* The methods of the client that was built format their statements with
\* the namespace: _CREATE_TABLE in setup_namespace, _DROP_TABLE in
\* delete_namespace.
BuildSql(op, head, tail) ==
    /\ storage_type = "postgres"
    /\ pg_client.status = "ok"
    /\ pg_client' = [pg_client EXCEPT
                        !.sql = @ \cup {SqlText(head, pg_client.namespace, tail)}]
    /\ result' = Res(op, "ok")
    /\ UNCHANGED nonCtor

InitCtor ==
    /\ storage_type = "postgres"
    /\ IdleBackends /\ IdleAux
    /\ result = NoResult /\ closed = FALSE

NextCtor ==
    \/ \E ns \in Namespaces : PGStorage(ns)
    \/ BuildSql("setup_namespace", "CREATE TABLE kv_", " (t text, ...")
    \/ BuildSql("delete_namespace", "DROP TABLE kv_", "")

SpecCtor == InitCtor /\ [][NextCtor]_vars

\* The namespace is one identifier, from its first character to its last.
WhollyIdentifier(x) ==
    /\ x # << >>
    /\ IdentStart(x[1])
    /\ \A i \in 2..Len(x) : IdentPart(x[i])

\* C24: a PGStorage whose namespace is not wholly an identifier is not
\* built (ProgrammerError), and every SQL text a client has built holds a
\* namespace that is wholly an identifier.
C24_NamespaceValidated ==
    /\ pg_client.status = "ok" => WhollyIdentifier(pg_client.namespace)
    /\ \A text \in pg_client.sql :
           WhollyIdentifier(SubSeq(text, 2, Len(text) - 1))

\* What the check does refuse: the empty namespace and every namespace whose
\* first character is not a letter or the underscore.
FirstCharacterValidated ==
    pg_client.status = "ok" =>
        pg_client.namespace # << >> /\ IdentStart(pg_client.namespace[1])

(***************************************************************************)
(* Two PGStorage clients on one database: the same namespace, different    *)
(* app_name.  A row carries, besides its columns, the app_name of the      *)
(* client whose put wrote it last (no column of the table: a record for    *)
(* the claims).                                                            *)
(***************************************************************************)
Apps == {"app1", "app2"}

\* A table name that has the app_name in it (kv_appname_namespace).
TableOfAppAndNamespace(app, ns) == SqlName(<< "k", "v", "_", app, "_" >>, ns)

\* The SQL table of a client: 'kv_{namespace}'.format(namespace=
\* self._namespace); the app_name of the client is no part of it.
TableOf(app, ns) == SqlName(<< "k", "v", "_" >>, ns)

AppRows(db, app) == {r \in db.rows : r.tab = TableOf(app, namespace)}

\* setup_namespace of the client of this app_name.
app_setup_namespace(app) ==
    /\ storage_type = "postgres"
    /\ apps_db' = [apps_db EXCEPT !.tables = @ \cup {TableOf(app, namespace)}]
    /\ result' = Res("setup_namespace", "ok")
    /\ UNCHANGED nonApps

\* put(table, (key, value)): upsert_<ns> on the client's SQL table.
app_put(app, key, v) ==
    /\ storage_type = "postgres"
    /\ LET tab == TableOf(app, namespace)
       IN  IF tab \notin apps_db.tables
           THEN /\ result' = Res("put", "DriverError")
                /\ UNCHANGED apps_db
           ELSE /\ apps_db' = [apps_db EXCEPT !.rows =
                                 {r \in @ : ~(r.tab = tab /\ r.k = key)}
                                   \cup {[tab |-> tab, k |-> key, v |-> v,
                                          by |-> app]}]
                /\ result' = Res("put", "ok")
    /\ UNCHANGED nonApps

\* get(table, key), drained: _GET on the client's SQL table.
app_get(app, key) ==
    /\ storage_type = "postgres"
    /\ LET tab == TableOf(app, namespace)
       IN  IF tab \notin apps_db.tables
           THEN /\ result' = Res("get", "DriverError")
                /\ apps_db' = [apps_db EXCEPT !.out = << >>]
           ELSE /\ apps_db' = [apps_db EXCEPT !.out =
                                 << [app |-> app, key |-> key,
                                     rows |-> {r \in AppRows(apps_db, app) :
                                                  r.k = key}] >>]
                /\ result' = Res("get", "ok")
    /\ UNCHANGED nonApps

\* clear_table(table): _CLEAR_TABLE on the client's SQL table.
app_clear_table(app) ==
    /\ storage_type = "postgres"
    /\ LET tab == TableOf(app, namespace)
       IN  IF tab \notin apps_db.tables
           THEN /\ result' = Res("clear_table", "DriverError")
                /\ UNCHANGED apps_db
           ELSE /\ apps_db' = [apps_db EXCEPT !.rows = @ \ AppRows(apps_db, app),
                                              !.out = << >>]
                /\ result' = Res("clear_table", "ok")
    /\ UNCHANGED nonApps

\* delete_namespace(): DROP TABLE on the client's SQL table.
app_delete_namespace(app) ==
    /\ storage_type = "postgres"
    /\ apps_db' = [tables |-> apps_db.tables \ {TableOf(app, namespace)},
                   rows |-> apps_db.rows \ AppRows(apps_db, app),
                   out |-> << >>]
    /\ result' = Res("delete_namespace", "ok")
    /\ UNCHANGED nonApps

InitApps ==
    /\ storage_type = "postgres"
    /\ IdleBackends /\ IdleAux
    /\ result = NoResult /\ closed = FALSE

NextApps ==
    \/ \E app \in Apps : app_setup_namespace(app)
    \/ \E app \in Apps, key \in {K1, K2}, v \in SmallValues : app_put(app, key, v)
    \/ \E app \in Apps, key \in {K1, K2} : app_get(app, key)
    \/ \E app \in Apps : app_clear_table(app)
    \/ \E app \in Apps : app_delete_namespace(app)

SpecApps == InitApps /\ [][NextApps]_vars

\* The rows that clients of another app_name wrote.
RowsOfOthers(db, app) == {r \in db.rows : r.by # app}

\* C25: two relational clients of the same namespace and different app_name
\* work on disjoint data: get of one returns no row that the other wrote,
\* and clear_table and delete_namespace of one leave the rows that the other
\* wrote.
C25_AppsAreDisjoint ==
    /\ [](\A n \in 1..Len(apps_db.out) :
              \A r \in apps_db.out[n].rows : r.by = apps_db.out[n].app)
    /\ [][\A app \in Apps :
              (app_clear_table(app) \/ app_delete_namespace(app))
                  => RowsOfOthers(apps_db', app) = RowsOfOthers(apps_db, app)]_vars

\* Clients of the same app_name and namespace do share their rows: get
\* returns what put wrote last.
SameAppSharesRows ==
    [][\A app \in Apps, key \in {K1, K2}, v \in SmallValues :
           (app_put(app, key, v) /\ result'.status = "ok")
               => {r.v : r \in {x \in AppRows(apps_db', app) : x.k = key}} = {v}]_vars

(***************************************************************************)
(* Claims about the connection of a suspended scan.                        *)
(***************************************************************************)
\* The scan stands at a yield and its cursor is open on self.connection.
ScanSuspended ==
    /\ storage_type = "postgres"
    /\ scan_gen.pc \in {"query", "rows"}
    /\ scan_gen.suspended /\ scan_gen.cursor = "open"

\* This step is a put, a delete or a next() of a get on the same client.
OtherOperation ==
    \/ \E t \in Tables, kvs \in ConnPuts, fail \in -1..1 : put(t, kvs, fail)
    \/ \E t \in Tables, keys \in ConnDeletes, fail \in -1..1 : delete(t, keys, fail)
    \/ \E fail \in Fails : GetNext(fail)

\* C26: while a scan of a relational client is suspended at a yield, a put,
\* a delete or a get on the same client, whether it returns or raises,
\* leaves open the connection, and with it the cursor, that the scan will
\* use at its next step.
C26_SuspendedScanKeepsConnection ==
    [][(ScanSuspended /\ OtherOperation)
          => connection' = "open" /\ scan_gen'.cursor = "open"]_vars

\* The same, for the operations that return normally.
OperationsThatReturnKeepCursor ==
    [][(ScanSuspended /\ OtherOperation /\ result'.status = "ok"
            /\ get_gen'.pc # "failed")
          => connection' = "open" /\ scan_gen'.cursor = "open"]_vars

(***************************************************************************)
(* The stored routine upsert_<ns> called by several clients at once for    *)
(* one (table, key).  Every call is one transaction (autocommit) under     *)
(* READ COMMITTED: a statement sees the rows committed before it starts,   *)
(* a written row stays locked until the call returns, and a statement that *)
(* meets the uncommitted write of another call waits for its commit.  The  *)
(* connection sets no isolation level (_conn), so the server's default,    *)
(* READ COMMITTED, is the one modelled.                                    *)
(***************************************************************************)
NumCallers == 3     \* clients that call upsert_<ns>, each once
MaxDeletes == 2     \* DELETE statements of other clients, at most

Callers == 1..NumCallers

\* IF found THEN RETURN; ELSE on to the INSERT
AfterUpdate(found) == IF found THEN "return" ELSE "insert"

OnUniqueViolationRaise == "raised"

\* EXCEPTION WHEN unique_violation THEN -- loop to try the UPDATE again
OnUniqueViolation == "update"

LockKept(c) == c

\* The commit at the end of the call releases the row.
LockAfterReturn(c) == 0

\* No other call holds an uncommitted write of the row.
NotLocked(u, c) == u.lock \in {0, c}

\* put(table, (key, value)) of caller c starts: callproc('upsert_<ns>').
UpsertCall(c) ==
    /\ storage_type = "postgres"
    /\ upserts.pc[c] = "idle"
    /\ upserts' = [upserts EXCEPT !.pc[c] = "update"]
    /\ UNCHANGED << nonUpserts, result >>

\* UPDATE kv_<ns> SET v = data WHERE t = tname AND k = key: it does not see
\* the uncommitted insert of another call, and waits for a locked row.
UpsertUpdate(c) ==
    /\ storage_type = "postgres"
    /\ upserts.pc[c] = "update"
    /\ upserts.rows = {} \/ NotLocked(upserts, c)
    /\ LET found == upserts.rows # {}
       IN  upserts' = [upserts EXCEPT
                          !.pc[c] = AfterUpdate(found),
                          !.iters[c] = @ + 1,
                          !.lock = IF found THEN c ELSE @]
    /\ UNCHANGED << nonUpserts, result >>

\* INSERT INTO kv_<ns>(t,k,v) VALUES (tname, key, data): the primary key
\* refuses a second row of the key.
UpsertInsert(c) ==
    /\ storage_type = "postgres"
    /\ upserts.pc[c] = "insert"
    /\ NotLocked(upserts, c)
    /\ IF upserts.rows # {}
       THEN upserts' = [upserts EXCEPT !.pc[c] = OnUniqueViolation]
       ELSE upserts' = [upserts EXCEPT !.pc[c] = "return", !.lock = c]
    /\ UNCHANGED << nonUpserts, result >>

\* RETURN: the call ends and its write is committed.
UpsertReturn(c) ==
    /\ storage_type = "postgres"
    /\ upserts.pc[c] = "return"
    /\ upserts' = [upserts EXCEPT !.pc[c] = "done", !.lock = LockAfterReturn(c),
                                  !.rows = {[v |-> c]}]
    /\ result' = Res("put", "ok")
    /\ UNCHANGED nonUpserts

\* DELETE FROM kv_<ns> WHERE t = %s AND k = %s by another client: it waits
\* for a locked row, and does not see an uncommitted insert.
OtherDelete ==
    /\ storage_type = "postgres"
    /\ upserts.budget > 0
    /\ upserts.lock = 0 \/ upserts.rows = {}
    /\ upserts' = [upserts EXCEPT !.rows = {}, !.budget = @ - 1,
                                  !.deleted = @ + 1]
    /\ UNCHANGED << nonUpserts, result >>

InitUpsert ==
    /\ storage_type = "postgres"
    /\ IdleBackends
    /\ pg_client = NoClient /\ apps_db = NoDb /\ codec = NoCodec /\ coll = NoColl
    /\ setups = NoSetups
    /\ \E b \in 0..MaxDeletes, r \in {{}, {[v |-> 0]}} :
           upserts = [rows |-> r, lock |-> 0,
                      pc |-> [c \in Callers |-> "idle"],
                      iters |-> [c \in Callers |-> 0],
                      budget |-> b, deleted |-> 0]
    /\ result = NoResult /\ closed = FALSE

UpsertStep(c) ==
    UpsertCall(c) \/ UpsertUpdate(c) \/ UpsertInsert(c) \/ UpsertReturn(c)

NextUpsert ==
    \/ \E c \in Callers : UpsertCall(c)
    \/ \E c \in Callers : UpsertUpdate(c)
    \/ \E c \in Callers : UpsertInsert(c)
    \/ \E c \in Callers : UpsertReturn(c)
    \/ OtherDelete

SpecUpsert == InitUpsert /\ [][NextUpsert]_vars

\* The server runs every call that can take a step, and every DELETE that
\* was sent.
FairSpecUpsert ==
    /\ SpecUpsert
    /\ \A c \in Callers : WF_vars(UpsertStep(c))
    /\ WF_vars(OtherDelete)

(***************************************************************************)
(* Claims about the stored routine.                                        *)
(***************************************************************************)
UpsertsRan == storage_type = "postgres" /\ upserts # NoUpserts

AllReturned == \A c \in Callers : upserts.pc[c] = "done"

\* C27: whatever the interleaving of the UPDATE and INSERT statements of
\* concurrent calls of upsert_<ns> for one key, no call raises the unique
\* violation, the table never holds two rows of the key, and when all calls
\* have returned and nobody deleted the key the table holds one row whose
\* value is the value of one of the calls.
C27_ConcurrentUpsertsHideConflict ==
    UpsertsRan =>
        /\ \A c \in Callers : upserts.pc[c] # "raised"
        /\ Cardinality(upserts.rows) <= 1
        /\ (AllReturned /\ upserts.deleted = 0)
               => \E c \in Callers : upserts.rows = {[v |-> c]}

\* Both calls returned, one of them after its INSERT met the row of the
\* other and its second UPDATE found it.
C27_Witness ==
    /\ UpsertsRan /\ AllReturned /\ upserts.deleted = 0
    /\ \E c \in Callers : upserts.iters[c] = 2
    /\ \E c \in Callers : upserts.iters[c] = 1 /\ upserts.rows # {[v |-> c]}

\* C28: under fair scheduling every call of upsert_<ns> returns, with other
\* clients deleting the key finitely often; and a call runs the UPDATE at
\* most twice when no DELETE runs beside the upserts.
C28_UpsertReturns ==
    /\ \A c \in Callers : (UpsertsRan ~> upserts.pc[c] = "done")
    /\ [](UpsertsRan /\ upserts.budget = 0 /\ upserts.deleted = 0
            => \A c \in Callers : upserts.iters[c] <= 2)

\* A call returned after three rounds of the loop: its INSERT met a row twice
\* and a DELETE removed the row before each following UPDATE.
C28_Witness ==
    /\ UpsertsRan
    /\ \E c \in Callers : upserts.pc[c] = "done" /\ upserts.iters[c] >= 3

(***************************************************************************)
(* The key codec on its own: two keys of one key spec are encoded, the     *)
(* bytes decoded, and the decoded key made the lower bound of the next     *)
(* chunk as _scan_subscan_kminmax does.                                    *)
(***************************************************************************)
CodecSpecs == {<< "str", "int" >>, << "int", "str" >>, << "str", "str" >>}

\* "", "a", "ab", "b", "a\x01", "\xff"
CodecStrings == {<< >>, <<97>>, <<97, 98>>, <<98>>, <<97, 1>>, <<255>>}

CodecInts == {-65536, -257, -256, -1, 0, 1, 2, 10, 255, 256, 65536}

FieldsOf(type) ==
    IF type = "int" THEN {IntField(n) : n \in CodecInts}
    ELSE {StrField(s) : s \in CodecStrings}

\* The keys that conform to a key spec of two fields.
KeysOf(key_spec) ==
    {<< f, g >> : f \in FieldsOf(key_spec[1]), g \in FieldsOf(key_spec[2])}

InitCodec ==
    /\ storage_type = "postgres"
    /\ IdleBackends
    /\ pg_client = NoClient /\ apps_db = NoDb /\ upserts = NoUpserts
    /\ coll = NoColl
    /\ setups = NoSetups
    /\ \E ks \in CodecSpecs : \E x \in KeysOf(ks), y \in KeysOf(ks) :
           codec = [NoCodec EXCEPT !.spec = ks, !.a = x, !.b = y]
    /\ result = NoResult /\ closed = FALSE

\* join_key_fragments of both keys (what put stores and scan compares).
codec_encode ==
    /\ codec.spec # << >> /\ codec.ea = << >>
    /\ codec' = [codec EXCEPT
                    !.ea = Some(join_key_fragments(codec.a, codec.spec)),
                    !.eb = Some(join_key_fragments(codec.b, codec.spec))]
    /\ UNCHANGED << nonCodec, result >>

\* rkey = split_key(keyraw, key_spec)
codec_decode ==
    /\ codec.ea # << >> /\ codec.da = << >>
    /\ codec' = [codec EXCEPT
                    !.da = Some(split_key(codec.ea[1], codec.spec)),
                    !.db = Some(split_key(codec.eb[1], codec.spec))]
    /\ UNCHANGED << nonCodec, result >>

\* kmin = split_key(prevkey, key_spec); start = make_start_key(kmin)
codec_reanchor ==
    /\ codec.da # << >> /\ codec.start = << >>
    /\ codec' = [codec EXCEPT
                    !.start = Some(make_start_key(codec.da[1], codec.spec))]
    /\ UNCHANGED << nonCodec, result >>

NextCodec == codec_encode \/ codec_decode \/ codec_reanchor

SpecCodec == InitCodec /\ [][NextCodec]_vars

(***************************************************************************)
(* Claims about the key codec.                                             *)
(***************************************************************************)
\* a < b as tuples of one key spec.
TupleLess(a, b) == a # b /\ TupleLeq(a, b, 1)

\* C29: for two keys of one key spec, a < b as tuples exactly when
\* encode(a) < encode(b) as bytes (so ("a",2) < ("a",10) < ("b",1) in
\* encoded order); decoding the encoded key gives the key back; and the
\* lower bound the chunked scan builds from the decoded last key is the
\* encoded last key.
C29_EncodingPreservesOrder ==
    /\ codec.ea # << >> =>
          /\ TupleLess(codec.a, codec.b) <=> LexLess(codec.ea[1], codec.eb[1])
          /\ (codec.a = Key(<<97>>, 2) /\ codec.b \in {Key(<<97>>, 10), Key(<<98>>, 1)})
                => LexLess(codec.ea[1], codec.eb[1])
          /\ (codec.a = Key(<<97>>, 10) /\ codec.b = Key(<<98>>, 1))
                => LexLess(codec.ea[1], codec.eb[1])
    /\ codec.da # << >> => codec.da[1] = codec.a /\ codec.db[1] = codec.b
    /\ codec.start # << >> => codec.start = codec.ea

\* ("a",10) and ("a",2): the integer field decides, 2 before 10, and both
\* keys came back from their bytes.
C29_Witness ==
    /\ codec.a = Key(<<97>>, 10) /\ codec.b = Key(<<97>>, 2)
    /\ codec.start # << >>
    /\ LexLess(codec.eb[1], codec.ea[1])
    /\ codec.da[1] = codec.a

\* A negative and a positive integer under one string: the sign decides.
C29_WitnessSign ==
    /\ codec.a = Key(<<97>>, -1) /\ codec.b = Key(<<97>>, 1)
    /\ codec.ea # << >> /\ LexLess(codec.ea[1], codec.eb[1])

(***************************************************************************)
(* InstanceCollection (kvlayer.instance_collection), as its tests use it:  *)
(* a writer collection ic is filled, changed and dumped; a reader          *)
(* collection ic2 is built from the bytes and its entries are read.        *)
(* A dict is a set of [k, v] records; bytes are a sequence of tokens.      *)
(***************************************************************************)
CollKeys == {"thing1", "thing2"}

\* 'Thing' is the registered ThingSerializer; config is dict(compress='gz')
\* or absent.
Serializers == {[ser |-> "Thing", gz |-> FALSE], [ser |-> "Thing", gz |-> TRUE],
                [ser |-> "yaml", gz |-> FALSE], [ser |-> "json", gz |-> FALSE]}

\* The dict keys of the tests, in the order yaml.dump writes them.
FieldOrder == << "another", "doing", "hello" >>

Hellos == {"people", "people2"}

DictGet(d, k) == (CHOOSE e \in d : e.k = k).v

DictSet(d, k, v) == {e \in d : e.k # k} \cup {[k |-> k, v |-> v]}

RECURSIVE DumpFrom(_, _)
DumpFrom(d, i) ==
    IF i > Len(FieldOrder) THEN << >>
    ELSE (IF \E e \in d : e.k = FieldOrder[i]
          THEN << FieldOrder[i], DictGet(d, FieldOrder[i]) >>
          ELSE << >>) \o DumpFrom(d, i + 1)

\* yaml.dump(data): one "key: value" line per key, keys sorted.
yaml_dump(d) == DumpFrom(d, 1)

yaml_load(blob) ==
    {[k |-> blob[2 * i - 1], v |-> blob[2 * i]] : i \in 1..(Len(blob) \div 2)}

\* json.dumps(data): the pairs between braces.
json_dumps(d) == << "{" >> \o DumpFrom(d, 1) \o << "}" >>

json_loads(blob) == yaml_load(SubSeq(blob, 2, Len(blob) - 1))

\* gzip.GzipFile(mode='wb') / (mode='rb'): a header before the payload.
GzipWrite(blob) == << "1f8b" >> \o blob

GzipRead(blob) == IF blob # << >> /\ Head(blob) = "1f8b" THEN Tail(blob) ELSE << >>

\* ThingSerializer.dumps: thing.dumps(), compressed when config says 'gz'.
ThingSerializer_dumps(gz, d) == IF gz THEN GzipWrite(yaml_dump(d)) ELSE yaml_dump(d)

\* ThingSerializer.loads: Thing(blob), after decompression when config says.
ThingSerializer_loads(gz, blob) == yaml_load(IF gz THEN GzipRead(blob) ELSE blob)

SerDumps(tb, d) ==
    IF tb.ser = "Thing" THEN ThingSerializer_dumps(tb.gz, d)
    ELSE IF tb.ser = "yaml" THEN yaml_dump(d)
    ELSE json_dumps(d)

SerLoads(tb, blob) ==
    IF tb.ser = "Thing" THEN ThingSerializer_loads(tb.gz, blob)
    ELSE IF tb.ser = "yaml" THEN yaml_load(blob)
    ELSE json_loads(blob)

InstancesEager(blobs) ==
    [k \in DOMAIN blobs |-> SerLoads(blobs[k].tb, blobs[k].blob)]

\* InstanceCollection(ic_str): no entry is deserialized by the constructor.
InstancesAfterLoad(blobs) == << >>

\* ic.insert(key, value, serializer_name, config)
insert(key, hello, tb) ==
    /\ storage_type = "local"
    /\ coll.ic_str = << >>
    /\ key \notin DOMAIN coll.ic.inst
    /\ coll' = [coll EXCEPT
                   !.ic.typed = @ @@ (key :> tb),
                   !.ic.inst = @ @@ (key :> {[k |-> "hello", v |-> hello]})]
    /\ UNCHANGED << nonColl, result >>

\* ic[key]['another'] = 'more'
ic_setitem(key) ==
    /\ storage_type = "local"
    /\ coll.ic_str = << >>
    /\ key \in DOMAIN coll.ic.inst
    /\ coll' = [coll EXCEPT !.ic.inst[key] = DictSet(@, "another", "more")]
    /\ UNCHANGED << nonColl, result >>

\* ic[key].do_more_things(), of a Thing
do_more_things(key) ==
    /\ storage_type = "local"
    /\ coll.ic_str = << >>
    /\ key \in DOMAIN coll.ic.inst
    /\ coll.ic.typed[key].ser = "Thing"
    /\ coll' = [coll EXCEPT !.ic.inst[key] = DictSet(@, "doing", "something")]
    /\ UNCHANGED << nonColl, result >>

\* ic_str = ic.dumps()
dumps ==
    /\ storage_type = "local"
    /\ coll.ic_str = << >>
    /\ DOMAIN coll.ic.inst # {}
    /\ coll' = [coll EXCEPT
                   !.ic_str = Some([k \in DOMAIN coll.ic.inst |->
                                      [tb |-> coll.ic.typed[k],
                                       blob |-> SerDumps(coll.ic.typed[k],
                                                         coll.ic.inst[k])]])]
    /\ UNCHANGED << nonColl, result >>

\* ic2 = InstanceCollection(ic_str)
InstanceCollection ==
    /\ storage_type = "local"
    /\ coll.ic_str # << >> /\ coll.ic2 = << >>
    /\ coll' = [coll EXCEPT
                   !.ic2 = Some([blobs |-> coll.ic_str[1],
                                 inst |-> InstancesAfterLoad(coll.ic_str[1])])]
    /\ UNCHANGED << nonColl, result >>

\* ic2[key]: the entry is deserialized on its first access and kept.
ic2_getitem(key) ==
    /\ storage_type = "local"
    /\ coll.ic2 # << >>
    /\ key \in DOMAIN coll.ic2[1].blobs
    /\ LET c2 == coll.ic2[1]
           inst == IF key \in DOMAIN c2.inst THEN c2.inst
                   ELSE c2.inst @@ (key :> SerLoads(c2.blobs[key].tb,
                                                    c2.blobs[key].blob))
       IN  coll' = [coll EXCEPT
                       !.ic2 = Some([c2 EXCEPT !.inst = inst]),
                       !.accessed = @ \cup {key},
                       !.got = Some([key |-> key, value |-> inst[key]])]
    /\ UNCHANGED << nonColl, result >>

InitColl ==
    /\ storage_type = "local"
    /\ IdleBackends
    /\ pg_client = NoClient /\ apps_db = NoDb /\ upserts = NoUpserts
    /\ codec = NoCodec
    /\ coll = NoColl
    /\ setups = NoSetups
    /\ result = NoResult /\ closed = FALSE

NextColl ==
    \/ \E key \in CollKeys, hello \in Hellos, tb \in Serializers :
           insert(key, hello, tb)
    \/ \E key \in CollKeys : ic_setitem(key)
    \/ \E key \in CollKeys : do_more_things(key)
    \/ dumps
    \/ InstanceCollection
    \/ \E key \in CollKeys : ic2_getitem(key)

SpecColl == InitColl /\ [][NextColl]_vars

(***************************************************************************)
(* Claims about InstanceCollection.                                        *)
(***************************************************************************)
\* C30: in a collection built from serialized bytes, the deserialized
\* instances are exactly the keys accessed so far (none before the first
\* access of a key, the key from its first access on), and the value an
\* access returns is the value that was serialized, fields set before dumps
\* included, for the Thing serializer with and without gzip, yaml and json.
C30_LazyDeserialization ==
    coll.ic2 # << >> =>
        /\ DOMAIN coll.ic2[1].inst = coll.accessed
        /\ coll.got # << >> =>
               coll.got[1].value = coll.ic.inst[coll.got[1].key]

\* Two entries were dumped, one gzipped with fields set after insert; it
\* was read and is deserialized, the other has not been read and is not.
C30_Witness ==
    /\ coll.ic2 # << >>
    /\ DOMAIN coll.ic2[1].blobs = CollKeys
    /\ coll.ic2[1].blobs["thing1"].tb = [ser |-> "Thing", gz |-> TRUE]
    /\ coll.got # << >> /\ coll.got[1].key = "thing1"
    /\ [k |-> "another", v |-> "more"] \in coll.got[1].value
    /\ [k |-> "doing", v |-> "something"] \in coll.got[1].value
    /\ DOMAIN coll.ic2[1].inst = {"thing1"}

(***************************************************************************)
(* Claims about the continuation of the chunked scan.                      *)
(***************************************************************************)
\* The rows the SQL query of the current chunk returned (the table does not
\* change while the scan runs).
ChunkReturned ==
    SelectRange(kv, scan_gen.table,
                IF scan_gen.kmin # << >>
                THEN Some(make_start_key(scan_gen.kmin, KeySpec)) ELSE None,
                IF scan_gen.kmax # << >>
                THEN Some(make_end_key(scan_gen.kmax, KeySpec)) ELSE None,
                scan_inner_limit)

\* The scan goes on in the same range, from the last key the chunk returned.
ScanContinues ==
    /\ scan_gen'.pc = "query"
    /\ scan_gen'.ri = scan_gen.ri
    /\ scan_gen'.kmin
          = split_key(ChunkReturned[Len(ChunkReturned)].k, KeySpec)

\* C31: when the rows of a chunk are used up and the SQL query had returned
\* exactly scan_inner_limit rows, the scan issues the next chunk re-anchored
\* at the last key returned, also when rows of the chunk were dropped for a
\* value over the ceiling.
C31_FullChunkContinues ==
    [][(ScanChunkEnd /\ Len(ChunkReturned) = scan_inner_limit)
          => ScanContinues]_vars

\* The same, for chunks none of whose rows is over the ceiling.
FullChunkWithinCeilingContinues ==
    [][(/\ ScanChunkEnd
        /\ Len(ChunkReturned) = scan_inner_limit
        /\ \A i \in 1..Len(ChunkReturned) : ~TooBig(ChunkReturned[i].v))
          => ScanContinues]_vars

(***************************************************************************)
(* Range reads of the file client over keys of two fields.                 *)
(***************************************************************************)
RangeKeys == { << 1, 1 >>, << 1, 3 >>, << 2, 2 >>, << 2, 4 >>, << 3, 1 >> }

\* One (start, finish) per call: within one first field, across first
\* fields with the second field of start above that of finish, across first
\* fields with every second field inside, a single key.
LexRanges ==
    { << << << 1, 1 >>, << 1, 3 >> >> >>,
      << << << 1, 3 >>, << 3, 1 >> >> >>,
      << << << 1, 1 >>, << 3, 4 >> >> >>,
      << << << 2, 2 >>, << 2, 2 >> >> >> }

InitRange ==
    /\ storage_type = "file"
    /\ IdlePG /\ IdleHB /\ IdleLegacy
    /\ instances = FALSE /\ connected = FALSE /\ f_out = << >>
    /\ \E S \in SUBSET RangeKeys :
           data = [tables |-> {"t1"}, rows |-> {FileRow("t1", k, 1) : k \in S}]
    /\ f_files = NoCopy(data)
    /\ IdleAux
    /\ result = NoResult /\ closed = FALSE

NextRange ==
    \/ FileStorage
    \/ \E ranges \in LexRanges : f_get("t1", ranges)
    \/ f_close

SpecRange == InitRange /\ [][NextRange]_vars

\* a <= b as tuples: equal, or the first differing field is less.
LexKeyLeq(a, b) ==
    \/ a = b
    \/ \E i \in 1..Len(a) : /\ \A j \in 1..(i - 1) : a[j] = b[j]
                            /\ a[i] # b[i] /\ FieldLeq(a[i], b[i])

\* The stored pairs of table t with start <= key <= finish as tuples.
LexFound(rows, t, r) ==
    {<< x.k, x.v >> : x \in {y \in RowsOf(rows, t) :
                                LexKeyLeq(r[1], y.k) /\ LexKeyLeq(y.k, r[2])}}

RangeReadIsLex(ranges) ==
    (f_get("t1", ranges) /\ connected) =>
        LET want == LexFound(data.rows, "t1", ranges[1])
        IN  /\ result'.status = "ok" => f_out' = << want >>
            /\ want # {} => result'.status = "ok"

\* C32: a range read (start, finish) of the file backend over keys of two
\* fields returns exactly the stored keys k with start <= k <= finish in
\* lexicographic tuple order; a key whose first field is strictly between
\* those of start and finish is returned whatever its second field is.
C32_FileRangeIsLexicographic ==
    [][\A ranges \in LexRanges : RangeReadIsLex(ranges)]_vars

\* The same, for the ranges whose bounds differ in the last field only or
\* enclose every second field of the stored keys.
FileRangeIsLexicographicInABox ==
    [][\A ranges \in LexRanges \ {<< << << 1, 3 >>, << 3, 1 >> >> >>} :
           RangeReadIsLex(ranges)]_vars

(***************************************************************************)
(* Claims about the table and the routine of a namespace.                  *)
(***************************************************************************)
TableWithRoutine(tables, procs) == kv_name \in tables <=> upsert_name \in procs

\* C33: in every state reached on the relational backend through
\* setup_namespace and delete_namespace, the runs in which a DROP statement
\* of delete_namespace fails and the error is swallowed included, the table
\* kv_<ns> exists exactly when the routine upsert_<ns> exists.
C33_TableIffRoutine ==
    storage_type = "postgres" => TableWithRoutine(pg_tables, pg_procs)

\* Every step keeps the table and the routine together, except a
\* delete_namespace whose DROP TABLE fails after its DROP FUNCTION.
OnlyFailedDropTableSeparates ==
    [][(/\ storage_type = "postgres"
        /\ TableWithRoutine(pg_tables, pg_procs)
        /\ ~delete_namespace("drop_table"))
          => TableWithRoutine(pg_tables', pg_procs')]_vars

(***************************************************************************)
(* Claims about the existence check of a namespace.                        *)
(***************************************************************************)
\* C34: the existence check finds a namespace only when the table kv_<ns>
\* itself exists: whenever kv_<ns> does not exist, setup_namespace creates
\* the table and the routine and delete_namespace drops nothing, other
\* tables with a name that differs from kv_<ns> at an underscore or in case
\* notwithstanding.
C34_CheckIsExact ==
    [][(storage_type = "postgres" /\ kv_name \notin pg_tables) =>
          /\ \A ts \in NsTables :
                 (setup_namespace(ts, "none") /\ result'.status = "ok")
                     => kv_name \in pg_tables' /\ upsert_name \in pg_procs'
          /\ delete_namespace("none") => UNCHANGED pgServerVars]_vars

\* The same, when no other table has a name the pattern matches.
CheckIsExactWithoutLookalike ==
    [][(/\ storage_type = "postgres"
        /\ kv_name \notin pg_tables
        /\ other_table \notin pg_tables) =>
          /\ \A ts \in NsTables :
                 (setup_namespace(ts, "none") /\ result'.status = "ok")
                     => kv_name \in pg_tables' /\ upsert_name \in pg_procs'
          /\ delete_namespace("none") => UNCHANGED pgServerVars]_vars

\* delete_namespace drops nothing of a namespace whose table is absent,
\* whatever the check found.
DeleteOfAbsentDropsNothing ==
    [][(/\ storage_type = "postgres"
        /\ kv_name \notin pg_tables
        /\ delete_namespace("none")) => UNCHANGED pgServerVars]_vars

(***************************************************************************)
(* setup_namespace of several clients at one time, statement by statement: *)
(* the existence check (relational) or the listing of tables (wide-column) *)
(* is one request to the server, each creation another.                    *)
(***************************************************************************)
SetupClients == {1, 2}

\* table_names of the wide-column calls, in the order of the loop.
SetupTables == << "t1", "t2" >>

\* setup_namespace up to the check: _cursor_check_namespace_table
\* (relational); existing_tables = self.conn.tables() (wide-column).
SetupCheck(c) ==
    /\ storage_type \in {"postgres", "hbase"}
    /\ setups.pc[c] = "idle"
    /\ setups' = [setups EXCEPT
                     !.pc[c] = "checked",
                     !.seen[c] = IF storage_type = "postgres"
                                 THEN {"kv"} \cap
                                      (IF _cursor_check_namespace_table(setups.tables, namespace)
                                       THEN {"kv"} ELSE {})
                                 ELSE setups.tables,
                     !.todo[c] = IF storage_type = "postgres" THEN << >>
                                 ELSE SetupTables]
    /\ UNCHANGED << nonSetups, result >>

\* "if exists: return" / cursor.execute(_CREATE_TABLE): the server refuses
\* to create a table or a routine that exists.
SetupCreate(c) ==
    /\ storage_type = "postgres"
    /\ setups.pc[c] = "checked"
    /\ IF setups.seen[c] # {}
       THEN /\ setups' = [setups EXCEPT !.pc[c] = "done"]
            /\ result' = Res("setup_namespace", "ok")
       ELSE IF kv_name \in setups.tables \/ upsert_name \in setups.procs
       THEN /\ setups' = [setups EXCEPT !.pc[c] = "failed"]
            /\ result' = Res("setup_namespace", "DriverError")
       ELSE /\ setups' = [setups EXCEPT !.pc[c] = "done",
                                        !.tables = @ \cup {kv_name},
                                        !.procs = @ \cup {upsert_name}]
            /\ result' = Res("setup_namespace", "ok")
    /\ UNCHANGED nonSetups

\* One round of "for table in table_names: if table not in existing_tables:
\* self._create_table(table)"; create_table of a table that exists raises.
HBSetupCreate(c) ==
    /\ storage_type = "hbase"
    /\ setups.pc[c] = "checked"
    /\ LET t == Head(setups.todo[c])
           rest == Tail(setups.todo[c])
           after == IF rest = << >> THEN "done" ELSE "checked"
       IN  IF t \in setups.seen[c]
           THEN /\ setups' = [setups EXCEPT !.todo[c] = rest, !.pc[c] = after]
                /\ result' = IF rest = << >> THEN Res("setup_namespace", "ok")
                             ELSE result
           ELSE IF t \in setups.tables
           THEN /\ setups' = [setups EXCEPT !.pc[c] = "failed"]
                /\ result' = Res("setup_namespace", "DriverError")
           ELSE /\ setups' = [setups EXCEPT !.todo[c] = rest, !.pc[c] = after,
                                            !.tables = @ \cup {t}]
                /\ result' = IF rest = << >> THEN Res("setup_namespace", "ok")
                             ELSE result
    /\ UNCHANGED nonSetups

InitSetups ==
    /\ storage_type \in {"postgres", "hbase"}
    /\ IdleBackends
    /\ pg_client = NoClient /\ apps_db = NoDb /\ upserts = NoUpserts
    /\ codec = NoCodec /\ coll = NoColl
    /\ \E ts \in IF storage_type = "postgres"
                 THEN {[tables |-> {}, procs |-> {}],
                       [tables |-> {kv_name}, procs |-> {upsert_name}]}
                 ELSE {[tables |-> {}, procs |-> {}],
                       [tables |-> {"t1"}, procs |-> {}],
                       [tables |-> {"t2"}, procs |-> {}],
                       [tables |-> {"t1", "t2"}, procs |-> {}]} :
           setups = [tables |-> ts.tables, procs |-> ts.procs,
                     pc |-> [c \in SetupClients |-> "idle"],
                     seen |-> [c \in SetupClients |-> {}],
                     todo |-> [c \in SetupClients |-> << >>]]
    /\ result = NoResult /\ closed = FALSE

NextSetups ==
    \/ \E c \in SetupClients : SetupCheck(c)
    \/ \E c \in SetupClients : SetupCreate(c)
    \/ \E c \in SetupClients : HBSetupCreate(c)

SpecSetups == InitSetups /\ [][NextSetups]_vars

(***************************************************************************)
(* Claims about concurrent setup_namespace.                                *)
(***************************************************************************)
SetupsRan == setups # NoSetups

NamespaceSetUp ==
    IF storage_type = "postgres"
    THEN kv_name \in setups.tables /\ upsert_name \in setups.procs
    ELSE \A i \in 1..Len(SetupTables) : SetupTables[i] \in setups.tables

\* C35: when two clients run setup_namespace for one namespace at the same
\* time, on the relational or the wide-column backend, under every
\* interleaving no call ends with an error, and when both have returned the
\* tables of the namespace (and the relational routine) exist.
C35_ConcurrentSetupCompletes ==
    SetupsRan =>
        /\ \A c \in SetupClients : setups.pc[c] # "failed"
        /\ (\A c \in SetupClients : setups.pc[c] = "done") => NamespaceSetUp

\* What either call was to create exists once every call has ended, with an
\* error or without; and a call fails only on a table that another client
\* created after this call had looked.
SetupEndsWithNamespace ==
    SetupsRan =>
        /\ (\A c \in SetupClients : setups.pc[c] \in {"done", "failed"})
              => NamespaceSetUp
        /\ \A c \in SetupClients :
              setups.pc[c] = "failed" =>
                  IF storage_type = "postgres"
                  THEN setups.seen[c] = {} /\ kv_name \in setups.tables
                  ELSE Head(setups.todo[c]) \notin setups.seen[c]
                       /\ Head(setups.todo[c]) \in setups.tables

(***************************************************************************)
(* put and delete of the relational client with arguments that fail        *)
(* validation at the first, a middle or the last position.                 *)
(***************************************************************************)
PartialPuts ==
    { << << K1, 4 >>, << BadArityKey, 4 >>, << K2, 4 >> >>,
      << << BadTypeKey, 3 >>, << K1, 3 >> >>,
      << << K2, 3 >>, << K1, 3 >>, << K1, BigValue >> >>,
      << << K1, 2 >>, << K1, 3 >>, << BadArityKey, 1 >>, << K1, 2 >> >>,
      << << K1, 2 >>, << K2, 3 >> >>,
      << << K1, 1 >> >>, << << K2, 1 >> >>, << << K2, 2 >> >> }

PartialDeletes ==
    { << K1 >>, << K2, K1 >>, << K1, BadArityKey >>, << BadArityKey, K2 >> }

InitPartial ==
    /\ storage_type = "postgres"
    /\ pg_tables = {kv_name} /\ pg_procs = {upsert_name}
    /\ \E f \in [{K1, K2} -> {0, 5, 6}] : kv = StoredRows("t1", f)
    /\ connection = "None" /\ table_names = {"t1"}
    /\ scan_inner_limit = 2
    /\ scan_gen = NoScan /\ get_gen = NoGet /\ calls = CallsOff
    /\ IdleHB /\ IdleFile /\ IdleLegacy
    /\ IdleAux
    /\ result = NoResult /\ closed = FALSE

NextPartial ==
    \/ \E t \in Tables, kvs \in PartialPuts : put(t, kvs, 0)
    \/ \E t \in Tables, keys \in PartialDeletes : delete(t, keys, 0)
    \/ clear_table("t1", "none")

SpecPartial == InitPartial /\ [][NextPartial]_vars

(***************************************************************************)
(* Claims about a put or delete that fails validation.                     *)
(***************************************************************************)
\* The position of the first pair that fails validation; Len + 1 when none.
FirstInvalid(kvs) ==
    LET bad == {j \in 1..Len(kvs) :
                   check_put_key_value(kvs[j][1], kvs[j][2], KeySpec) # "ok"}
    IN  IF bad = {} THEN Len(kvs) + 1
        ELSE CHOOSE j \in bad : \A o \in bad : j <= o

\* rows are the rows before, with the pairs of kvs written in order.
WrittenInOrder(before, after, kvs) ==
    /\ \A key \in {K1, K2} :
          PGStored(after, key) =
              IF HasKey(kvs, key)
              THEN {[t |-> "t1", k |-> join_key_fragments(key, KeySpec),
                     v |-> LastValue(kvs, key)]}
              ELSE PGStored(before, key)
    /\ after = PGStored(after, K1) \cup PGStored(after, K2)

PutStopsAtInvalid(kvs) ==
    (put("t1", kvs, 0) /\ FirstInvalid(kvs) <= Len(kvs)) =>
        /\ result'.status \in {"BadKey", "ValueTooLarge"}
        /\ WrittenInOrder(kv, kv', SubSeq(kvs, 1, FirstInvalid(kvs) - 1))

DeleteChecksArityFirst(keys) ==
    (delete("t1", keys, 0) /\ \E j \in 1..Len(keys) : Len(keys[j]) # Len(KeySpec)) =>
        /\ result'.status = "Exception"
        /\ kv' = kv

\* C36: on the relational backend, when the j-th pair of a put fails
\* validation, exactly the pairs before position j have been upserted, in
\* argument order, and no pair at or after j; a delete with a key of wrong
\* arity among its keys removes no row.
C36_PutPartialDeleteAtomic ==
    [][/\ \A kvs \in PartialPuts : PutStopsAtInvalid(kvs)
       /\ \A keys \in PartialDeletes : DeleteChecksArityFirst(keys)]_vars

\* A put failed at its second pair: the first pair is stored, the third is
\* not.
C36_Witness ==
    /\ result = Res("put", "BadKey")
    /\ \E r \in PGStored(kv, K1) : r.v = 4
    /\ PGStored(kv, K2) = {}

\* A delete with a key of wrong arity after a stored key raised, and the
\* stored key is still there.
C36_WitnessDelete ==
    /\ result = Res("delete", "Exception")
    /\ PGStored(kv, K1) # {}

====
